---- MODULE Spec2Model ----
(***************************************************************************)
(* A model of the LibGen Explorer result-ingestion and ranking engine.     *)
(*                                                                         *)
(* Text is modelled as a sequence of one-character strings, so that        *)
(* strip(), split(), replace(), upper(), substring tests, float() and      *)
(* urllib.parse.quote() are computed character by character.  The constant *)
(* URL templates of api.py appear as single opaque atoms at the head of a  *)
(* text; they are only ever produced, never parsed.                        *)
(***************************************************************************)
EXTENDS Integers, Sequences, FiniteSets, TLC

VARIABLES pc, call, arg, ret, exc, log, gun

vars == <<pc, call, arg, ret, exc, log, gun>>

\* database.py: gun = MockGUN(), whose _data = {} is a nested dict.  It is
\* written as a function from the paths of the nodes below the root, each a
\* sequence of keys, to the nodes: a dict or a value.
MockGUN == <<>>

(***************************************************************************)
(* Bounds of the model.                                                    *)
(***************************************************************************)
\* Largest number of data rows (rows after the header) of a listing.
MaxRows == 2

(***************************************************************************)
(* Text helpers (Python str methods).                                      *)
(***************************************************************************)
Digits == {"0", "1", "2", "3", "4", "5", "6", "7", "8", "9"}

DigitVal(c) ==
  CASE c = "0" -> 0 [] c = "1" -> 1 [] c = "2" -> 2 [] c = "3" -> 3
    [] c = "4" -> 4 [] c = "5" -> 5 [] c = "6" -> 6 [] c = "7" -> 7
    [] c = "8" -> 8 [] c = "9" -> 9

\* str.upper(), on the letters the model's texts use.
UpperChar(c) ==
  CASE c = "a" -> "A" [] c = "b" -> "B" [] c = "f" -> "F" [] c = "g" -> "G"
    [] c = "i" -> "I" [] c = "k" -> "K" [] c = "m" -> "M" [] c = "n" -> "N"
    [] c = "x" -> "X" [] c = "y" -> "Y"
    [] OTHER -> c

Upper(t) == [i \in 1..Len(t) |-> UpperChar(t[i])]

\* str.replace(old, new) for single characters.
ReplaceChar(t, old, new) == [i \in 1..Len(t) |-> IF t[i] = old THEN new ELSE t[i]]

\* `pat in t`: pat occurs in t as a contiguous substring.
Contains(t, pat) ==
  \E i \in 0..(Len(t) - Len(pat)) : \A j \in 1..Len(pat) : t[i + j] = pat[j]

\* str.strip(): drop leading and trailing whitespace.
RECURSIVE LStrip(_)
LStrip(t) == IF t # <<>> /\ Head(t) = " " THEN LStrip(Tail(t)) ELSE t

RECURSIVE RStrip(_)
RStrip(t) ==
  IF t # <<>> /\ t[Len(t)] = " " THEN RStrip(SubSeq(t, 1, Len(t) - 1)) ELSE t

Strip(t) == RStrip(LStrip(t))

\* str.split(): the maximal runs of non-whitespace characters.
RECURSIVE SplitWs(_, _, _)
SplitWs(t, cur, acc) ==
  IF t = <<>>
    THEN IF cur = <<>> THEN acc ELSE Append(acc, cur)
    ELSE IF Head(t) = " "
      THEN SplitWs(Tail(t), <<>>, IF cur = <<>> THEN acc ELSE Append(acc, cur))
      ELSE SplitWs(Tail(t), Append(cur, Head(t)), acc)

Split(t) == SplitWs(t, <<>>, <<>>)

\* t.split('/')[-1]: what follows the last '/' (all of t when there is none).
RECURSIVE LastSegment(_)
LastSegment(t) ==
  IF \E i \in 1..Len(t) : t[i] = "/" THEN LastSegment(Tail(t)) ELSE t

\* urllib.parse.quote(s): letters, digits and "_.-~/" are kept, every other
\* character becomes %XX (its UTF-8 byte in hexadecimal).
QuoteChar(c) ==
  CASE c = " " -> <<"%", "2", "0">>
    [] c = "(" -> <<"%", "2", "8">>
    [] c = ")" -> <<"%", "2", "9">>
    [] c = "," -> <<"%", "2", "C">>
    [] c = "+" -> <<"%", "2", "B">>
    [] OTHER -> <<c>>

RECURSIVE Quote(_)
Quote(t) == IF t = <<>> THEN <<>> ELSE QuoteChar(Head(t)) \o Quote(Tail(t))

(***************************************************************************)
(* float(): [sign] digits [. digits] | [sign] nan | [sign] inf             *)
(*          (exponents are outside the model's alphabet)                   *)
(***************************************************************************)
RECURSIVE DigitsValue(_)
DigitsValue(t) ==
  IF t = <<>> THEN 0
  ELSE 10 * DigitsValue(SubSeq(t, 1, Len(t) - 1)) + DigitVal(t[Len(t)])

RECURSIVE Pow10(_)
Pow10(n) == IF n = 0 THEN 1 ELSE 10 * Pow10(n - 1)

IsDigit(c) == c \in Digits

\* kind "err" is ValueError; a number is (-1)^neg * num / den.
ParseFloat(tok) ==
  LET signed == tok # <<>> /\ tok[1] \in {"+", "-"}
      neg    == tok # <<>> /\ tok[1] = "-"
      body   == IF signed THEN Tail(tok) ELSE tok
      word   == Upper(body)
      dots   == {i \in 1..Len(body) : body[i] = "."}
      ds     == SelectSeq(body, IsDigit)
      dotAt  == CHOOSE i \in dots : TRUE
  IN  IF word = <<"N", "A", "N">>
        THEN [kind |-> "nan", neg |-> neg, num |-> 0, den |-> 1]
      ELSE IF word \in {<<"I", "N", "F">>, <<"I", "N", "F", "I", "N", "I", "T", "Y">>}
        THEN [kind |-> "inf", neg |-> neg, num |-> 0, den |-> 1]
      ELSE IF /\ \A i \in 1..Len(body) : body[i] \in Digits \cup {"."}
              /\ Cardinality(dots) <= 1
              /\ ds # <<>>
        THEN [kind |-> "num", neg |-> neg, num |-> DigitsValue(ds),
              den |-> IF dots = {} THEN 1 ELSE Pow10(Len(body) - dotAt)]
      ELSE [kind |-> "err", neg |-> FALSE, num |-> 0, den |-> 1]

(***************************************************************************)
(* api.py: size text to bytes (lines 226-248).                             *)
(***************************************************************************)
KB == 1024

\* The multiplier of the unit token, by `in` tests in the order of the
\* if/elif chain; 0 when no branch matches (filesize keeps its initial 0).
UnitMultiplier(size_unit) ==
  IF Contains(size_unit, <<"K", "B">>) THEN KB
  ELSE IF Contains(size_unit, <<"M", "B">>) THEN KB * KB
  ELSE IF Contains(size_unit, <<"G", "B">>) THEN KB * KB * KB
  ELSE IF Contains(size_unit, <<"B">>) THEN 1
  ELSE 0

\* Rounding toward minus infinity instead of toward zero.
IntFloor(neg, num, den) == IF neg THEN -((num + den - 1) \div den) ELSE num \div den

\* int(x): truncation toward zero of (-1)^neg * num / den.
IntTrunc(neg, num, den) == IF neg THEN -(num \div den) ELSE num \div den

\* The outcome of lines 226-248 for one size text:
\*   raised: int(filesize) raised (ValueError for nan, OverflowError for inf),
\*           which is outside the inner try;
\*   warned: the inner except logged "Could not parse size".
ParseFilesize(size_text) ==
  LET size_parts == Split(size_text)
      v          == ParseFloat(ReplaceChar(size_parts[1], ",", "."))
      mult       == UnitMultiplier(Upper(size_parts[2]))
  IN  IF size_text = <<>> \/ Len(size_parts) # 2
        THEN [raised |-> FALSE, warned |-> FALSE, filesize |-> 0]
      ELSE IF v.kind = "err"
        THEN [raised |-> FALSE, warned |-> TRUE, filesize |-> 0]
      ELSE IF mult = 0
        THEN [raised |-> FALSE, warned |-> FALSE, filesize |-> 0]
      ELSE IF v.kind \in {"nan", "inf"}
        THEN [raised |-> TRUE, warned |-> FALSE, filesize |-> 0]
      ELSE [raised |-> FALSE, warned |-> FALSE,
            filesize |-> IntTrunc(v.neg, v.num * mult, v.den)]

(***************************************************************************)
(* api.py: the receiver of the two module-level functions.                 *)
(*                                                                         *)
(* _parse_html_results and _get_direct_download_link are defined at        *)
(* column 0 (lines 132 and 259), after the body of class LibGenAPI has     *)
(* ended (line 127): they are functions of the module that take `self` as  *)
(* an ordinary first parameter, and not attributes of a LibGenAPI.         *)
(***************************************************************************)
LibGenAPIAttrs ==
  {"mirror", "session", "_find_working_mirror", "search", "get_book_details"}

ModuleFunctions == {"_parse_html_results", "_get_direct_download_link"}

\* What `self` can be in a direct call of a module-level function: a
\* LibGenAPI instance, or an object that also exposes the two functions as
\* methods (what their `self` parameter expects).
Receivers == {LibGenAPIAttrs, LibGenAPIAttrs \cup ModuleFunctions}

(***************************************************************************)
(* api.py: _get_direct_download_link (lines 259-290).                      *)
(***************************************************************************)
GET == <<"G", "E", "T">>

DownloadMarker == <<"d", "o", "w", "n", "l", "o", "a", "d", ".">>

MainMarker == <<"/", "m", "a", "i", "n", "/">>

None == [some |-> FALSE, href |-> <<>>]

Some(href) == [some |-> TRUE, href |-> href]

MinOf(S) == CHOOSE i \in S : \A j \in S : i <= j

\* page.ok is FALSE when session.get or raise_for_status raised; otherwise
\* page.anchors are the <a> tags of the landing page in document order.
\* Returns the Optional[str] and whether the except branch logged a warning.
DirectDownloadLink(page) ==
  LET as     == page.anchors
      gets   == {i \in 1..Len(as) : as[i].text = GET}
      marked == {i \in 1..Len(as) :
                   /\ as[i].hasHref
                   /\ as[i].href # <<>>
                   /\ \/ Contains(as[i].href, DownloadMarker)
                      \/ Contains(as[i].href, MainMarker)}
  IN  IF ~page.ok THEN [link |-> None, warned |-> TRUE]
      ELSE IF gets # {} /\ as[MinOf(gets)].hasHref
        THEN [link |-> Some(as[MinOf(gets)].href), warned |-> FALSE]
      ELSE IF marked # {}
        THEN [link |-> Some(as[MinOf(marked)].href), warned |-> FALSE]
      ELSE [link |-> None, warned |-> FALSE]

(***************************************************************************)
(* api.py: _parse_html_results, one row (lines 163-250).                   *)
(***************************************************************************)
MinCells == 8

\* An off-by-one guard: rows of exactly MinCells cells are skipped as well.
TooFewCellsInclusive(cells) == Len(cells) <= MinCells

\* Line 166: the row is skipped.
TooFewCells(cells) == Len(cells) < MinCells

\* cells[i].text.strip() if len(cells) > i else '' (i counted from 0).
CellText(cells, i) == IF Len(cells) > i THEN Strip(cells[i + 1].text) ELSE <<>>

Link(k, v) == [k |-> k, v |-> v]

\* Lines 219-222: the links derived from the id alone.
MirrorLinks(id) ==
  << Link("ipfs_cloudflare", <<"https://cloudflare-ipfs.com/ipfs/">> \o id),
     Link("ipfs_io", <<"https://ipfs.io/ipfs/">> \o id),
     Link("ipfs_pinata", <<"https://gateway.pinata.cloud/ipfs/">> \o id),
     Link("tor_mirror",
          <<"http://libgenfrialc7tguyjywa36vtrdcplxydrxnm3f6zjbwxprqsycqad.onion/main/">> \o id) >>

\* Lines 205-211: the file name of the constructed link.
FallbackFilename(book) ==
  (book.author \o <<" ", "-", " ">> \o book.title)
    \o (IF book.publisher # <<>> THEN <<"-">> \o book.publisher ELSE <<>>)
    \o (IF book.year # <<>> THEN <<" ", "(">> \o book.year \o <<")">> ELSE <<>>)
    \o (IF book.extension # <<>> THEN <<".">> \o book.extension ELSE <<>>)

\* Line 214.
FallbackLink(book, book_id) ==
  <<"https://download.books.ms/main/880000/">> \o book_id \o <<"/">>
    \o Quote(FallbackFilename(book))

\* The main page recorded only after the direct link has been resolved: an
\* exception in the resolution then loses it.
ResolveLinksMainPageLate(self, book, cells, page) ==
  LET Resolved(main_link, direct) ==
        [link |-> <<main_link>>,
         download_links |->
           <<Link("get", IF direct.link.some /\ direct.link.href # <<>>
                           THEN direct.link.href
                           ELSE FallbackLink(book, LastSegment(main_link))),
             Link("main_page", main_link)>>
             \o MirrorLinks(book.id),
         log |-> IF direct.warned
                   THEN <<"warning: Could not extract direct download link">>
                   ELSE <<>>]
      Linked(main_link) ==
        IF "_get_direct_download_link" \notin self
          THEN [link |-> <<main_link>>,
                download_links |-> MirrorLinks(book.id),
                log |-> <<"warning: Could not extract GET link">>]
          ELSE Resolved(main_link, DirectDownloadLink(page))
      Anchors(links) ==
        IF links # <<>>
          THEN Linked(IF links[1].hasHref THEN links[1].href ELSE <<>>)
          ELSE [link |-> <<>>, download_links |-> <<>>, log |-> <<>>]
  IN  IF Len(cells) > 9
        THEN Anchors(cells[10].anchors)
        ELSE [link |-> <<>>, download_links |-> <<>>, log |-> <<>>]

\* Lines 183-224.  Returns the optional book['link'], the download_links in
\* insertion order and what was logged.
ResolveLinks(self, book, cells, page) ==
  LET Resolved(main_link, direct) ==
        [link |-> <<main_link>>,
         download_links |->
           <<Link("main_page", main_link),
             Link("get", IF direct.link.some /\ direct.link.href # <<>>
                           THEN direct.link.href
                           ELSE FallbackLink(book, LastSegment(main_link)))>>
             \o MirrorLinks(book.id),
         log |-> IF direct.warned
                   THEN <<"warning: Could not extract direct download link">>
                   ELSE <<>>]
      Linked(main_link) ==
        IF "_get_direct_download_link" \notin self
          THEN \* AttributeError at line 200, caught at line 215
               [link |-> <<main_link>>,
                download_links |->
                  <<Link("main_page", main_link)>> \o MirrorLinks(book.id),
                log |-> <<"warning: Could not extract GET link">>]
          ELSE Resolved(main_link, DirectDownloadLink(page))
      Anchors(links) ==
        IF links # <<>>
          THEN Linked(IF links[1].hasHref THEN links[1].href ELSE <<>>)
          ELSE [link |-> <<>>, download_links |-> <<>>, log |-> <<>>]
  IN  IF Len(cells) > 9
        THEN Anchors(cells[10].anchors)
        ELSE [link |-> <<>>, download_links |-> <<>>, log |-> <<>>]

\* The nine positional fields (lines 170-180).
BookFields(cells) ==
  [id |-> CellText(cells, 0), author |-> CellText(cells, 1),
   title |-> CellText(cells, 2), publisher |-> CellText(cells, 3),
   year |-> CellText(cells, 4), pages |-> CellText(cells, 5),
   language |-> CellText(cells, 6), size |-> CellText(cells, 7),
   extension |-> CellText(cells, 8)]

\* One iteration of the loop: skip (line 167), raise (line 248) or a book.
ParseRow(self, row) ==
  LET Book(b, r, f) ==
        [skip |-> FALSE, raised |-> f.raised,
         log |-> r.log \o (IF f.warned THEN <<"warning: Could not parse size">>
                                       ELSE <<>>),
         book |-> [id |-> b.id, author |-> b.author, title |-> b.title,
                   publisher |-> b.publisher, year |-> b.year,
                   pages |-> b.pages, language |-> b.language,
                   size |-> b.size, extension |-> b.extension,
                   link |-> r.link, download_links |-> r.download_links,
                   filesize |-> f.filesize]]
      Accept(b) ==
        Book(b, ResolveLinks(self, b, row.cells, row.page), ParseFilesize(b.size))
  IN  IF TooFewCells(row.cells)
        THEN [skip |-> TRUE, raised |-> FALSE, log |-> <<>>, book |-> <<>>]
        ELSE Accept(BookFields(row.cells))

(***************************************************************************)
(* api.py: _parse_html_results (lines 132-257).                            *)
(***************************************************************************)
\* The loop of lines 162-250 over the rows left to do.
RECURSIVE ParseRows(_, _, _)
ParseRows(self, rows, acc) ==
  LET Step(p) ==
        IF p.skip THEN ParseRows(self, Tail(rows), acc)
        ELSE IF p.raised
          THEN [results |-> acc.results, log |-> acc.log \o p.log, raised |-> TRUE]
        ELSE ParseRows(self, Tail(rows),
                       [results |-> Append(acc.results, p.book),
                        log |-> acc.log \o p.log, raised |-> FALSE])
  IN  IF rows = <<>> THEN acc ELSE Step(ParseRow(self, Head(rows)))

\* html.c is the table found by class 'c' and html.alt the one found by
\* cellpadding/cellspacing, each <<>> (not found) or <<trs>>.
ParseHtmlResultsOf(self, html) ==
  LET Return(p) ==
        IF p.raised
          THEN [results |-> <<>>,
                log |-> p.log \o <<"error: Error parsing HTML results">>]
          ELSE [results |-> p.results,
                log |-> p.log \o <<"info: Parsed results from HTML">>]
      Rows(table) ==
        Return(ParseRows(self, IF table[1] = <<>> THEN <<>> ELSE Tail(table[1]),
                         [results |-> <<>>, log |-> <<>>, raised |-> FALSE]))
      Table(table) ==
        IF table = <<>>
          THEN [results |-> <<>>,
                log |-> <<"warning: Could not find results table in HTML">>]
          ELSE Rows(table)
  IN  Table(IF html.c # <<>> THEN html.c ELSE html.alt)

\* Values returned to a caller.
List(items) == [type |-> "list", val |-> items]

NoValue == [type |-> "none", val |-> <<>>]

(***************************************************************************)
(* api.py: LibGenAPI.search (lines 68-101).                                *)
(***************************************************************************)
\* resp.kind is the outcome of the request:
\*   "transport_error"  session.get raised a RequestException (line 88)
\*   "http_error"       raise_for_status raised HTTPError (line 89)
\*   "json"             Content-Type application/json, resp.body the decoded
\*                      value, or an undecodable body (resp.body.type "invalid")
\*   "html"             any other Content-Type, resp.html the document
\* jsonErrorIsRequestException: whether the installed requests raises a
\* JSONDecodeError that derives from RequestException (2.27 and later) or a
\* plain ValueError (earlier releases); the repository pins no version.
SearchOf(self, resp, jsonErrorIsRequestException) ==
  IF resp.kind \in {"transport_error", "http_error"}
    THEN [ret |-> List(<<>>), exc |-> "none",
          log |-> <<"error: Error searching LibGen">>]
  ELSE IF resp.kind = "json"
    THEN IF resp.body.type # "invalid"
      THEN [ret |-> resp.body, exc |-> "none", log |-> <<>>]
      ELSE IF jsonErrorIsRequestException
        THEN [ret |-> List(<<>>), exc |-> "none",
              log |-> <<"error: Error searching LibGen">>]
        ELSE [ret |-> NoValue, exc |-> "ValueError", log |-> <<>>]
  ELSE IF "_parse_html_results" \in self
    THEN LET r == ParseHtmlResultsOf(self, resp.html)
         IN  [ret |-> List(r.results), exc |-> "none", log |-> r.log]
    ELSE \* self._parse_html_results: no such attribute (line 97)
         [ret |-> NoValue, exc |-> "AttributeError", log |-> <<>>]

(***************************************************************************)
(* Inputs: listings, landing pages and responses.                          *)
(***************************************************************************)
Anchor(text, hasHref, href) == [text |-> text, hasHref |-> hasHref, href |-> href]

TextCell(t) == [text |-> t, anchors |-> <<>>]

LinkCell(anchors) == [text |-> <<>>, anchors |-> anchors]

PlainHref == <<"x", ".", "h", "t", "m", "l">>

MainHref == <<"/", "m", "a", "i", "n", "/", "A", "1">>

DownloadHref == <<"d", "o", "w", "n", "l", "o", "a", "d", ".", "x", "/", "f">>

GetHref == <<"g", "e", "t", ".", "p", "h", "p">>

\* What the fetch of a row's landing page yields.
FetchFailed == [ok |-> FALSE, anchors |-> <<>>]

Page(anchors) == [ok |-> TRUE, anchors |-> anchors]

Pages ==
  { FetchFailed,
    Page(<<>>),
    Page(<<Anchor(GET, TRUE, GetHref)>>),
    Page(<<Anchor(<<"x">>, TRUE, DownloadHref), Anchor(GET, TRUE, GetHref)>>),
    Page(<<Anchor(GET, FALSE, <<>>), Anchor(<<"x">>, TRUE, PlainHref),
           Anchor(<<"x">>, TRUE, MainHref), Anchor(<<"x">>, TRUE, DownloadHref)>>),
    Page(<<Anchor(<<"x">>, TRUE, PlainHref)>>),
    Page(<<Anchor(GET, TRUE, <<>>), Anchor(<<"x">>, TRUE, MainHref)>>),
    Page(<<Anchor(<<"x">>, FALSE, <<>>), Anchor(<<"x">>, TRUE, DownloadHref)>>) }

BookPage == Page(<<Anchor(GET, TRUE, GetHref)>>)

\* The link cell of a row: its anchors.
BookLink == <<"b", "/", "A", "1">>

LinkCells ==
  { <<>>,
    <<Anchor(<<"x">>, TRUE, BookLink)>>,
    <<Anchor(<<"x">>, FALSE, <<>>)>>,
    <<Anchor(<<"x">>, TRUE, <<>>), Anchor(<<"x">>, TRUE, BookLink)>> }

SizeTexts ==
  { <<>>,
    <<"4", ".", "5", " ", "M", "B">>,
    <<"4", ",", "5", " ", "M", "B">>,
    <<"1", ".", "5", " ", "B">>,
    <<"0", ".", "3", " ", "K", "B">>,
    <<"1", "2", " ", "k", "b">>,
    <<"1", " ", "G", "B">>,
    <<"1", " ", "G", "B", "K", "B">>,
    <<"7", " ", "K", "i", "B">>,
    <<"-", "5", " ", "M", "B">>,
    <<"-", "0", ".", "4", " ", "B">>,
    <<"n", "a", "n", " ", "M", "B">>,
    <<"i", "n", "f", " ", "K", "B">>,
    <<"a", "b", "c", " ", "M", "B">>,
    <<"5", " ", "X", "Y">>,
    <<"n", "a", "n", " ", "X", "Y">>,
    <<"5", "M", "B">>,
    <<"1", " ", "5", " ", "M", "B">> }

\* The text cells of a row: id, author, title, publisher, year, pages,
\* language, size, extension.
Fields(id, publisher, year, size, extension) ==
  << TextCell(id), TextCell(<<"R", " ", "M">>), TextCell(<<"C", ",", "C">>),
     TextCell(publisher), TextCell(year), TextCell(<<"4", "6", "4">>),
     TextCell(<<"E", "n">>), TextCell(size), TextCell(extension) >>

\* A <tr> of n <td> cells, with the landing page its link leads to.
Row(n, id, publisher, year, size, extension, anchors, page) ==
  [cells |-> SubSeq(Fields(id, publisher, year, size, extension)
                      \o <<LinkCell(anchors), TextCell(<<>>)>>, 1, n),
   page |-> page]

BaseId == <<"7">>

BaseSize == <<"4", ".", "5", " ", "M", "B">>

BaseYear == <<"2", "0", "0", "8">>

BasePdf == <<"p", "d", "f">>

BaseRow(n, id, size, anchors, page) ==
  Row(n, id, <<"P">>, BaseYear, size, BasePdf, anchors, page)

CellCounts == {0, 6, 7, 8, 9, 10, 11}

\* The rows of the model: each family varies one aspect of a full row.
Rows ==
  {BaseRow(n, BaseId, BaseSize, <<Anchor(<<"x">>, TRUE, BookLink)>>, BookPage) :
     n \in CellCounts}
  \cup {BaseRow(n, id, BaseSize, <<Anchor(<<"x">>, TRUE, BookLink)>>, BookPage) :
          n \in {9, 10}, id \in {<<>>, <<" ", "8", " ">>}}
  \cup {BaseRow(10, BaseId, size, <<>>, BookPage) : size \in SizeTexts}
  \cup {BaseRow(10, BaseId, BaseSize, a, BookPage) : a \in LinkCells}
  \cup {BaseRow(10, BaseId, BaseSize, <<Anchor(<<"x">>, TRUE, BookLink)>>, p) :
          p \in Pages}
  \cup {Row(10, BaseId, <<>>, y, BaseSize, e,
            <<Anchor(<<"x">>, TRUE, BookLink)>>, FetchFailed) :
          y \in {<<>>, BaseYear}, e \in {<<>>, BasePdf}}

\* The first <tr> of a results table.
HeaderRow ==
  Row(11, <<"I", "D">>, <<"P">>, <<"Y">>, <<"S">>, <<"E">>, <<>>, FetchFailed)

RowSeqs == UNION {[1..n -> Rows] : n \in 0..MaxRows}

\* The tables a document can hold: none, one without any <tr>, or a header
\* row followed by data rows.
Tables == {<<>>} \cup {<<HeaderRow>> \o rs : rs \in RowSeqs}

HtmlDocs ==
  {[c |-> <<>>, alt |-> <<>>]}
  \cup {[c |-> <<t>>, alt |-> <<>>] : t \in Tables}
  \cup {[c |-> <<>>, alt |-> <<t>>] : t \in {u \in Tables : Len(u) <= 2}}
  \cup {[c |-> <<t>>, alt |-> <<<<HeaderRow, HeaderRow>>>>] : t \in {u \in Tables : Len(u) <= 2}}

(***************************************************************************)
(* State: a pending call with its argument; then what the call returned or *)
(* raised to its caller, and what it logged.  The functions hold no state  *)
(* across calls, so a behaviour is one call applied to one input.          *)
(***************************************************************************)
ParseArgs == [self : Receivers, html : HtmlDocs]

\* The decoded body of a JSON response: a list of records, an object, or a
\* body that does not decode.
JsonBodies ==
  { List(<<>>), List(<<[id |-> BaseId, title |-> <<"C">>]>>),
    [type |-> "dict", val |-> <<>>], [type |-> "invalid", val |-> <<>>] }

Responses ==
  {[kind |-> k, body |-> NoValue, html |-> [c |-> <<>>, alt |-> <<>>]] :
     k \in {"transport_error", "http_error"}}
  \cup {[kind |-> "json", body |-> b, html |-> [c |-> <<>>, alt |-> <<>>]] :
          b \in JsonBodies}
  \cup {[kind |-> "html", body |-> NoValue, html |-> h] :
          h \in {d \in HtmlDocs : d.alt = <<>>}}

\* search is a method: its receiver is a LibGenAPI instance.
SearchArgs ==
  [self : {LibGenAPIAttrs}, resp : Responses, jsonErrorIsRequestException : BOOLEAN]

LinkArgs == [page : Pages]

Init ==
  /\ pc = "ready"
  /\ ret = NoValue
  /\ exc = "none"
  /\ log = <<>>
  /\ gun = MockGUN
  /\ \/ call = "_parse_html_results" /\ arg \in ParseArgs
     \/ call = "_get_direct_download_link" /\ arg \in LinkArgs
     \/ call = "search" /\ arg \in SearchArgs

\* A direct call _parse_html_results(self, html).
ParseHtmlResults ==
  /\ pc = "ready"
  /\ call = "_parse_html_results"
  /\ LET r == ParseHtmlResultsOf(arg.self, arg.html)
     IN  /\ ret' = List(r.results)
         /\ exc' = "none"
         /\ log' = r.log
  /\ pc' = "done"
  /\ UNCHANGED <<gun, call, arg>>

\* A direct call _get_direct_download_link(self, url); arg.page is what the
\* session returns for the url.
GetDirectDownloadLink ==
  /\ pc = "ready"
  /\ call = "_get_direct_download_link"
  /\ LET r == DirectDownloadLink(arg.page)
     IN  /\ ret' = [type |-> "optional", val |-> r.link]
         /\ exc' = "none"
         /\ log' = IF r.warned
                     THEN <<"warning: Could not extract direct download link">>
                     ELSE <<>>
  /\ pc' = "done"
  /\ UNCHANGED <<gun, call, arg>>

\* api.search(query): arg.resp is what the mirror answers.
Search ==
  /\ pc = "ready"
  /\ call = "search"
  /\ LET r == SearchOf(arg.self, arg.resp, arg.jsonErrorIsRequestException)
     IN  /\ ret' = r.ret
         /\ exc' = r.exc
         /\ log' = r.log
  /\ pc' = "done"
  /\ UNCHANGED <<gun, call, arg>>

Next == ParseHtmlResults \/ GetDirectDownloadLink \/ Search

Spec == Init /\ [][Next]_vars

(***************************************************************************)
(* Properties of the record extractor.                                     *)
(***************************************************************************)
ParseDone == pc = "done" /\ call = "_parse_html_results"

\* The records returned by the call.
Books == ret.val

\* The <tr> rows after the header of the table the parse selects.
InputRows ==
  LET Data(table) ==
        IF table = <<>> \/ table[1] = <<>> THEN <<>> ELSE Tail(table[1])
  IN  Data(IF arg.html.c # <<>> THEN arg.html.c ELSE arg.html.alt)

\* The rows of at least n cells, in source order.
RowsWith(n) == SelectSeq(InputRows, LAMBDA r : Len(r.cells) >= n)

Keys(download_links) == {download_links[i].k : i \in 1..Len(download_links)}

LinkOf(download_links, k) ==
  download_links[CHOOSE i \in 1..Len(download_links) : download_links[i].k = k].v

MirrorNames == {"ipfs_cloudflare", "ipfs_io", "ipfs_pinata", "tor_mirror"}

\* The size text of a row of at least 8 cells is "nan" or "inf" (any case,
\* any sign) followed by a unit that contains a B.
SizeNotFinite(row) ==
  LET Of(parts) ==
        /\ Len(parts) = 2
        /\ ParseFloat(parts[1]).kind \in {"nan", "inf"}
        /\ Contains(Upper(parts[2]), <<"B">>)
  IN  Of(Split(row.cells[8].text))

\* The parse ended in its outer handler (line 255).
Aborted == log # <<>> /\ log[Len(log)] = "error: Error parsing HTML results"

\* The receiver has no _get_direct_download_link and the row has an anchor in
\* its link cell: line 200 raises.
LinkResolutionRaises(row) ==
  /\ "_get_direct_download_link" \notin arg.self
  /\ Len(row.cells) > 9
  /\ row.cells[10].anchors # <<>>

\* C1 (as stated): every record carries the four id-derived mirror links,
\* also when the row has no link cell or the link cell has no anchor.
C1_MirrorLinksAlways ==
  ParseDone => \A i \in 1..Len(Books) : MirrorNames \subseteq Keys(Books[i].download_links)

\* Records and rows of at least n cells correspond one to one, in order.
OnePerRowWith(n) ==
  /\ Len(Books) = Len(RowsWith(n))
  /\ \A k \in 1..Len(Books) :
       /\ Books[k].id = Strip(RowsWith(n)[k].cells[1].text)
       /\ Books[k].size = Strip(RowsWith(n)[k].cells[8].text)
       /\ Books[k].link # <<>> <=>
            (Len(RowsWith(n)[k].cells) > 9 /\ RowsWith(n)[k].cells[10].anchors # <<>>)

\* C2 (as stated): the output is one record per row of at least 9 cells, in
\* source order; rows of fewer than 9 cells are skipped.
C2_NineCells == ParseDone => OnePerRowWith(9)

\* C2 (amended): the output is one record per row of at least 8 cells, in
\* source order, and rows of fewer than 8 cells are skipped; the output is
\* empty instead exactly when int() raises on the nan or inf size of such a
\* row.
C2_EightCells ==
  ParseDone =>
    /\ Aborted <=> \E k \in 1..Len(RowsWith(MinCells)) : SizeNotFinite(RowsWith(MinCells)[k])
    /\ IF Aborted THEN Books = <<>> ELSE OnePerRowWith(8)

\* C2 witness: a row of exactly 8 cells was parsed into a record.
C2_Witness ==
  /\ ParseDone
  /\ \E k \in 1..Len(RowsWith(8)) :
       /\ Len(RowsWith(8)[k].cells) = 8
       /\ Len(Books) >= k
       /\ Books[k].extension = <<>>
  /\ \E k \in 1..Len(InputRows) : Len(InputRows[k].cells) = 7

\* The power of 1024 the claim gives a unit token: KB, MB, GB, B in that
\* priority, by substring, whatever the case; -1 when none occurs.
ClaimedPower(unit) ==
  IF Contains(Upper(unit), <<"K", "B">>) THEN 1
  ELSE IF Contains(Upper(unit), <<"M", "B">>) THEN 2
  ELSE IF Contains(Upper(unit), <<"G", "B">>) THEN 3
  ELSE IF Contains(Upper(unit), <<"B">>) THEN 0
  ELSE -1

RECURSIVE Pow1024(_)
Pow1024(n) == IF n = 0 THEN 1 ELSE 1024 * Pow1024(n - 1)

\* The size text is 'X unit' with X a decimal written with '.' or ','.
IsSizeWithUnit(parts) ==
  /\ Len(parts) = 2
  /\ ParseFloat(ReplaceChar(parts[1], ",", ".")).kind = "num"
  /\ ClaimedPower(parts[2]) >= 0

\* filesize = X * 1024^n, with X = (-1)^neg * num / den.
ExactBytes(filesize, x, n) ==
  filesize * x.den = (IF x.neg THEN -1 ELSE 1) * x.num * Pow1024(n)

\* filesize is X * 1024^n with its fraction dropped (rounded toward zero).
TruncatedBytes(filesize, x, n) ==
  LET Abs(f) ==
        /\ f >= 0
        /\ f * x.den <= x.num * Pow1024(n)
        /\ x.num * Pow1024(n) < (f + 1) * x.den
  IN  IF x.neg THEN Abs(-filesize) ELSE Abs(filesize)

\* C3 (as stated): for 'X unit' the filesize equals X * 1024^n, and every
\* other size text yields filesize 0.
C3_ExactBytes ==
  ParseDone =>
    \A i \in 1..Len(Books) :
      LET Of(parts) ==
            IF IsSizeWithUnit(parts)
              THEN ExactBytes(Books[i].filesize,
                              ParseFloat(ReplaceChar(parts[1], ",", ".")),
                              ClaimedPower(parts[2]))
              ELSE Books[i].filesize = 0
      IN  Of(Split(Books[i].size))

\* C3 (amended): for 'X unit' the filesize is X * 1024^n truncated toward
\* zero by int(); every other size text of a returned record yields 0; a
\* size of nan or inf with a unit containing B yields no record at all, the
\* whole result being empty.
C3_TruncatedBytes ==
  ParseDone =>
    /\ \A i \in 1..Len(Books) :
         LET Of(parts) ==
               IF IsSizeWithUnit(parts)
                 THEN TruncatedBytes(Books[i].filesize,
                                     ParseFloat(ReplaceChar(parts[1], ",", ".")),
                                     ClaimedPower(parts[2]))
                 ELSE Books[i].filesize = 0
         IN  Of(Split(Books[i].size))
    /\ (\E k \in 1..Len(RowsWith(MinCells)) : SizeNotFinite(RowsWith(MinCells)[k]))
         => Books = <<>>

\* C3 witness: a size whose byte count has a fraction ("0.3 KB" is 307.2
\* bytes) next to one that has none.
C3_Witness ==
  /\ ParseDone
  /\ \E i \in 1..Len(Books) :
       /\ Books[i].size = <<"0", ".", "3", " ", "K", "B">>
       /\ Books[i].filesize = 307
  /\ \E i \in 1..Len(Books) :
       /\ Books[i].size = <<"4", ",", "5", " ", "M", "B">>
       /\ Books[i].filesize = 4718592

\* C4 (as stated): a record of a row whose link cell has an anchor always
\* ends with a 'get' link, which is the href of the landing page's GET
\* anchor when there is one.
C4_AlwaysGetLink ==
  ParseDone =>
    \A k \in 1..Len(RowsWith(MinCells)) :
      LET row == RowsWith(MinCells)[k]
      IN  (~Aborted /\ Len(row.cells) > 9 /\ row.cells[10].anchors # <<>>) =>
            /\ "get" \in Keys(Books[k].download_links)
            /\ \A j \in 1..Len(row.page.anchors) :
                 (row.page.ok /\ row.page.anchors[j].text = GET
                    /\ \A h \in 1..(j - 1) : row.page.anchors[h].text # GET)
                 => LinkOf(Books[k].download_links, "get") = row.page.anchors[j].href

\* C5: when the only failures of a parse are exceptions of link resolution,
\* every row whose resolution raised is still in the output, at its place,
\* with the main_page link that was added before the failure, and each
\* failure was logged.
C5_LinkErrorKeepsRecord ==
  (ParseDone /\ ~Aborted) =>
    /\ \A k \in 1..Len(RowsWith(MinCells)) :
         LinkResolutionRaises(RowsWith(MinCells)[k]) =>
           /\ Len(Books) >= k
           /\ Books[k].id = Strip(RowsWith(MinCells)[k].cells[1].text)
           /\ "main_page" \in Keys(Books[k].download_links)
           /\ Books[k].link = <<LinkOf(Books[k].download_links, "main_page")>>
    /\ Len(SelectSeq(log, LAMBDA e : e = "warning: Could not extract GET link"))
         = Len(SelectSeq(RowsWith(MinCells), LinkResolutionRaises))

\* C5 witness: a parse in which link resolution raised for a row, and the
\* row's record is returned without a 'get' link.
C5_Witness ==
  /\ ParseDone
  /\ ~Aborted
  /\ \E k \in 1..Len(RowsWith(MinCells)) :
       /\ LinkResolutionRaises(RowsWith(MinCells)[k])
       /\ Keys(Books[k].download_links) = {"main_page"} \cup MirrorNames

\* C6 (as stated): a malformed row never aborts the batch: every row of at
\* least 9 cells is returned, whatever the size texts of the listing.
C6_NeverAborts == ParseDone => Len(Books) >= Len(RowsWith(9))

\* C7 (as stated): search returns a list and raises nothing, whatever the
\* outcome of the request.
C7_SearchNeverRaises ==
  (pc = "done" /\ call = "search") => (exc = "none" /\ ret.type = "list")

\* C8 (as stated): every returned record has a non-empty id.
C8_IdNonEmpty == ParseDone => \A i \in 1..Len(Books) : Books[i].id # <<>>

\* C9 (as stated): every returned record has filesize >= 0.
C9_FilesizeNonNegative == ParseDone => \A i \in 1..Len(Books) : Books[i].filesize >= 0

(***************************************************************************)
(* rating.py: ResultRater.                                                 *)
(*                                                                         *)
(* Scores are fixed-point numbers: integers counting millionths, so 0.5 is *)
(* 500000.  Weights count hundredths, and an overall score, a sum of       *)
(* weight * score, counts hundred-millionths.  A float that can be NaN is  *)
(* a record [kind, v] with kind "num" or "nan"; kind "str" is a string     *)
(* that is no number, in a column that should hold numbers.                *)
(***************************************************************************)
Scale == Pow10(6)

Num(v) == [kind |-> "num", v |-> v]

NaN == [kind |-> "nan", v |-> 0]

NotANumber == [kind |-> "str", v |-> 0]

\* pd.to_numeric(x, errors='coerce')
ToNumeric(x) == IF x.kind = "num" THEN x ELSE NaN

\* A text cell of a frame: a str, or something else (NaN, None).
Str(text) == [str |-> TRUE, text |-> text]

NotStr == [str |-> FALSE, text |-> <<>>]

\* Lines 28-38: the defaults, updated by the keys of weight_config.
DefaultWeights ==
  [title_match |-> 40, author_match |-> 20, recency |-> 10, popularity |-> 10,
   quality |-> 20]

\* The weights renormalized to sum to 1 (100 hundredths).
WeightsNormalized(weight_config) ==
  LET Updated ==
        [k \in DOMAIN DefaultWeights \cup DOMAIN weight_config |->
           IF k \in DOMAIN weight_config THEN weight_config[k] ELSE DefaultWeights[k]]
      Normalized(w, total) == [k \in DOMAIN w |-> (w[k] * 100) \div total]
  IN  Normalized(Updated,
                 Updated.title_match + Updated.author_match + Updated.recency
                   + Updated.popularity + Updated.quality)

Weights(weight_config) ==
  [k \in DOMAIN DefaultWeights \cup DOMAIN weight_config |->
     IF k \in DOMAIN weight_config THEN weight_config[k] ELSE DefaultWeights[k]]

\* str.lower()
LowerChar(c) ==
  CASE c = "A" -> "a" [] c = "B" -> "b" [] c = "C" -> "c" [] c = "D" -> "d"
    [] c = "E" -> "e" [] c = "F" -> "f" [] c = "G" -> "g" [] c = "H" -> "h"
    [] c = "I" -> "i" [] c = "J" -> "j" [] c = "K" -> "k" [] c = "L" -> "l"
    [] c = "M" -> "m" [] c = "N" -> "n" [] c = "O" -> "o" [] c = "P" -> "p"
    [] c = "Q" -> "q" [] c = "R" -> "r" [] c = "S" -> "s" [] c = "T" -> "t"
    [] c = "U" -> "u" [] c = "V" -> "v" [] c = "W" -> "w" [] c = "X" -> "x"
    [] c = "Y" -> "y" [] c = "Z" -> "z"
    [] OTHER -> c

Lower(t) == [i \in 1..Len(t) |-> LowerChar(t[i])]

\* \w of the regular expression, on lowercased text.
WordChars ==
  {"a", "b", "c", "d", "e", "f", "g", "h", "i", "j", "k", "l", "m",
   "n", "o", "p", "q", "r", "s", "t", "u", "v", "w", "x", "y", "z", "_"} \cup Digits

\* re.findall(r'\b\w+\b', t): the maximal runs of word characters.
RECURSIVE WordRuns(_, _, _)
WordRuns(t, cur, acc) ==
  IF t = <<>>
    THEN IF cur = <<>> THEN acc ELSE Append(acc, cur)
    ELSE IF Head(t) \in WordChars
      THEN WordRuns(Tail(t), Append(cur, Head(t)), acc)
      ELSE WordRuns(Tail(t), <<>>, IF cur = <<>> THEN acc ELSE Append(acc, cur))

\* Lines 133-137.
Stopwords ==
  { <<"a">>, <<"a", "n">>, <<"t", "h", "e">>,
    <<"a", "n", "d">>, <<"o", "r">>, <<"b", "u", "t">>,
    <<"i", "n">>, <<"o", "n">>, <<"a", "t">>,
    <<"t", "o">>, <<"f", "o", "r">>, <<"w", "i", "t", "h">>,
    <<"b", "y">>, <<"o", "f">>, <<"f", "r", "o", "m">>,
    <<"a", "s">>, <<"i", "s">>, <<"a", "r", "e">>,
    <<"w", "a", "s">>, <<"w", "e", "r", "e">>, <<"b", "e">>,
    <<"t", "h", "i", "s">>, <<"t", "h", "a", "t">>, <<"t", "h", "e", "s", "e">>,
    <<"t", "h", "o", "s", "e">>, <<"i", "t">> }

\* _extract_terms (lines 116-139); cell is a Str or not a str.
ExtractTerms(cell) ==
  LET Terms(words) ==
        {words[i] : i \in {j \in 1..Len(words) :
                             words[j] \notin Stopwords /\ Len(words[j]) > 1}}
  IN  IF ~cell.str \/ cell.text = <<>> THEN {}
      ELSE Terms(WordRuns(Lower(cell.text), <<>>, <<>>))

\* The term-match score with the two emphases exchanged: 0.6 on the match
\* ratio, 0.4 on the coverage.
TermMatchScoreSwapped(cell, terms) ==
  LET Score(m, nText, nQuery) ==
        IF m = 0 THEN 0
        ELSE (6 * m * Scale) \div (10 * nText) + (4 * m * Scale) \div (10 * nQuery)
      Match(text_terms) ==
        IF text_terms = {} THEN 0
        ELSE Score(Cardinality(text_terms \cap terms), Cardinality(text_terms),
                   Cardinality(terms))
  IN  IF ~cell.str \/ cell.text = <<>> \/ terms = {} THEN 0
      ELSE Match(ExtractTerms(cell))

\* _calculate_term_match_score (lines 141-171).
TermMatchScore(cell, terms) ==
  LET Score(m, nText, nQuery) ==
        IF m = 0 THEN 0
        ELSE (4 * m * Scale) \div (10 * nText) + (6 * m * Scale) \div (10 * nQuery)
      Match(text_terms) ==
        IF text_terms = {} THEN 0
        ELSE Score(Cardinality(text_terms \cap terms), Cardinality(text_terms),
                   Cardinality(terms))
  IN  IF ~cell.str \/ cell.text = <<>> \/ terms = {} THEN 0
      ELSE Match(ExtractTerms(cell))

\* Line 197.
MaxAge == 50

\* 1 - log1p(y) / log1p(50) for y = 0 .. 50, in millionths (line 199).
RecencyTable ==
  << 1000000, 823709, 720585, 647417, 590664, 544293, 505087, 471126,
     441169, 414373, 390132, 368002, 347644, 328796, 311249, 294834,
     279415, 264878, 251127, 238081, 225672, 213840, 202535, 191710,
     181328, 171353, 161754, 152505, 143580, 134957, 126618, 118543,
     110717, 103124, 95751, 88587, 81618, 74835, 68229, 61790,
     55509, 49381, 43396, 37549, 31833, 26243, 20774, 15419,
     10175, 5036, 0 >>

Clip(x, lo, hi) == IF x < lo THEN lo ELSE IF x > hi THEN hi ELSE x

\* The recency scores without the neutral 0.5 of a column that holds no year.
RecencyScoresNoNeutral(years, current_year) ==
  LET Of(y) ==
        IF y.kind = "num"
          THEN Num(RecencyTable[Clip(current_year - y.v, 0, MaxAge) + 1])
          ELSE NaN
  IN  [i \in 1..Len(years) |-> Of(ToNumeric(years[i]))]

\* _calculate_recency_score (lines 173-201) on the column of years.
RecencyScores(years, current_year) ==
  LET Of(y) ==
        IF y.kind = "num"
          THEN Num(RecencyTable[Clip(current_year - y.v, 0, MaxAge) + 1])
          ELSE NaN
  IN  IF \A i \in 1..Len(years) : ToNumeric(years[i]).kind = "nan"
        THEN [i \in 1..Len(years) |-> Num(Scale \div 2)]
        ELSE [i \in 1..Len(years) |-> Of(ToNumeric(years[i]))]

\* floor(Scale * a / c) for 0 <= a <= c, one decimal digit at a time.
RECURSIVE Fraction(_, _, _)
Fraction(a, c, digits) ==
  IF digits = 0 THEN 0
  ELSE ((a * 10) \div c) * Pow10(digits - 1) + Fraction((a * 10) % c, c, digits - 1)

SeqMin(s) == CHOOSE x \in {s[i] : i \in 1..Len(s)} : \A j \in 1..Len(s) : x <= s[j]

SeqMax(s) == CHOOSE x \in {s[i] : i \in 1..Len(s)} : \A j \in 1..Len(s) : x >= s[j]

\* The normalization that divides by the maximum alone, leaving the minimum
\* out.
NormalizeColumnByMax(series) ==
  LET Normalized(s, lo, hi) ==
        IF hi = lo THEN [i \in 1..Len(s) |-> Scale \div 2]
        ELSE [i \in 1..Len(s) |-> Fraction(s[i], hi, 6)]
      FillNa(s) == Normalized(s, SeqMin(s), SeqMax(s))
  IN  FillNa([i \in 1..Len(series) |->
                IF ToNumeric(series[i]).kind = "num" THEN series[i].v ELSE 0])

\* _normalize_column (lines 276-291).
NormalizeColumn(series) ==
  LET Normalized(s, lo, hi) ==
        IF hi = lo THEN [i \in 1..Len(s) |-> Scale \div 2]
        ELSE [i \in 1..Len(s) |-> Fraction(s[i] - lo, hi - lo, 6)]
      FillNa(s) == Normalized(s, SeqMin(s), SeqMax(s))
  IN  FillNa([i \in 1..Len(series) |->
                IF ToNumeric(series[i]).kind = "num" THEN series[i].v ELSE 0])

\* Lines 219-230: the bonus of an extension, in hundredths.
ExtensionBonus(ext) ==
  CASE ext = <<"p", "d", "f">> -> 20
    [] ext = <<"e", "p", "u", "b">> -> 25
    [] ext = <<"m", "o", "b", "i">> -> 20
    [] ext = <<"d", "j", "v", "u">> -> 15
    [] ext = <<"a", "z", "w", "3">> -> 20
    [] ext = <<"f", "b", "2">> -> 15
    [] ext = <<"t", "x", "t">> -> 0
    [] ext = <<"h", "t", "m", "l">> -> 5
    [] ext = <<"c", "b", "z">> -> 10
    [] ext = <<"c", "b", "r">> -> 10
    [] OTHER -> 0

MB == 1024 * 1024

\* The size adjustment with a bonus of 0.25 from 50 MB on.
SizeAdjustmentBigBonus(filesize) ==
  IF filesize.kind # "num" THEN 0
  ELSE IF filesize.v * 10 < MB THEN -20
  ELSE IF filesize.v < MB THEN -10
  ELSE IF filesize.v < 10 * MB THEN 0
  ELSE IF filesize.v < 50 * MB THEN 10
  ELSE 25

\* Lines 236-257: the adjustment for the file size, in hundredths; size_mb is
\* filesize / MB, and every comparison with a NaN is false.
SizeAdjustment(filesize) ==
  IF filesize.kind # "num" THEN 0
  ELSE IF filesize.v * 10 < MB THEN -20
  ELSE IF filesize.v < MB THEN -10
  ELSE IF filesize.v < 10 * MB THEN 0
  ELSE IF filesize.v < 50 * MB THEN 10
  ELSE 15

\* The page-count adjustment that leaves an unknown page count alone.
PagesAdjustmentUnknownNeutral(pages) ==
  IF ToNumeric(pages).kind # "num" THEN 0
  ELSE IF pages.v = 0 THEN -20 ELSE IF pages.v > 300 THEN 10 ELSE 0

\* Lines 263-271: the adjustment for the page count, in hundredths.
PagesAdjustment(pages) ==
  LET Of(n) == IF n = 0 THEN -20 ELSE IF n > 300 THEN 10 ELSE 0
  IN  Of(IF ToNumeric(pages).kind = "num" THEN pages.v ELSE 0)

\* The quality score that starts from a full 1.0 and is not clipped.
QualityScoreFullBaseNoClip(columns, row) ==
  (Scale \div 100) *
    (100 + (IF "extension" \in columns THEN ExtensionBonus(row.extension) ELSE 0)
         + (IF "filesize" \in columns THEN SizeAdjustment(row.filesize) ELSE 0)
         + (IF "pages" \in columns THEN PagesAdjustment(row.pages) ELSE 0))

\* _calculate_quality_score (lines 203-274), for one row.
QualityScore(columns, row) ==
  (Scale \div 100) *
    Clip(50 + (IF "extension" \in columns THEN ExtensionBonus(row.extension) ELSE 0)
            + (IF "filesize" \in columns THEN SizeAdjustment(row.filesize) ELSE 0)
            + (IF "pages" \in columns THEN PagesAdjustment(row.pages) ELSE 0),
         0, 100)

\* Line 236: dividing a column that holds a str raises TypeError.
QualityRaises(df) ==
  /\ "filesize" \in df.columns
  /\ \E i \in 1..Len(df.rows) : df.rows[i].filesize.kind = "str"

ScoreColumns ==
  {"title_match_score", "author_match_score", "recency_score", "popularity_score",
   "quality_score", "overall_score"}

\* Lines 98-104: NaN when a factor is NaN.
OverallScore(w, title, author, recency, popularity, quality) ==
  IF recency.kind = "nan" THEN NaN
  ELSE Num(w.title_match * title + w.author_match * author + w.recency * recency.v
           + w.popularity * popularity + w.quality * quality)

\* Lines 61-104: the rows with their six scores, in the order of the input.
\* additional_keywords is the keywords joined by ' ' (line 64), <<>> for
\* None or an empty list.
ScoredRows(df, query, additional_keywords, w, current_year) ==
  LET n == Len(df.rows)
      Column(name) == [i \in 1..n |-> df.rows[i][name]]
      Scored(terms, recency, popularity) ==
        [i \in 1..n |->
           LET Score(r, title, author, quality) ==
                 [index |-> r.index, title |-> r.title, author |-> r.author,
                  year |-> r.year, filesize |-> r.filesize,
                  download_count |-> r.download_count,
                  extension |-> r.extension, pages |-> r.pages,
                  title_match_score |-> title, author_match_score |-> author,
                  recency_score |-> recency[i], popularity_score |-> popularity[i],
                  quality_score |-> quality,
                  overall_score |->
                    OverallScore(w, title, author, recency[i], popularity[i], quality)]
           IN  Score(df.rows[i],
                   IF "title" \in df.columns
                     THEN TermMatchScore(df.rows[i].title, terms) ELSE 0,
                   IF "author" \in df.columns
                     THEN TermMatchScore(df.rows[i].author, terms) ELSE 0,
                   QualityScore(df.columns, df.rows[i]))]
  IN  Scored(ExtractTerms(Str(query))
             \cup (IF additional_keywords # <<>>
                     THEN ExtractTerms(Str(additional_keywords)) ELSE {}),
           IF "year" \in df.columns
             THEN RecencyScores(Column("year"), current_year)
             ELSE [i \in 1..n |-> Num(Scale \div 2)],
           IF "filesize" \in df.columns THEN NormalizeColumn(Column("filesize"))
           ELSE IF "download_count" \in df.columns
             THEN NormalizeColumn(Column("download_count"))
           ELSE [i \in 1..n |-> Scale \div 2])

\* Line 107: sort_values('overall_score', ascending=False) with the default
\* kind='quicksort', which is not a stable sort: the rows with a number come
\* first, largest first and in any order among equal scores; the rows with
\* NaN come last, in their previous order (na_position='last').
SortValues(rows) ==
  LET n == Len(rows)
      key(i) == rows[i].overall_score
      Sorted(p) ==
        \A i, j \in 1..n :
          i < j =>
            /\ key(p[i]).kind = "nan" => (key(p[j]).kind = "nan" /\ p[i] < p[j])
            /\ (key(p[i]).kind = "num" /\ key(p[j]).kind = "num")
                 => key(p[i]).v >= key(p[j]).v
  IN  {[i \in 1..n |-> rows[p[i]]] : p \in {q \in Permutations(1..n) : Sorted(q)}}

Frame(columns, rows) == [type |-> "df", val |-> [columns |-> columns, rows |-> rows]]

\* rate_results (lines 42-114): every outcome the call can have, as what it
\* returns and what it logs.  w is self.weights.
RateResultsOf(w, df, query, additional_keywords, current_year) ==
  IF df.rows = <<>> \/ df.columns = {}
    THEN {[ret |-> Frame(df.columns, df.rows),
           log |-> <<"warning: Cannot rate empty results">>]}
  ELSE IF QualityRaises(df)
    THEN {[ret |-> Frame(df.columns, df.rows),
           log |-> <<"error: Error rating results">>]}
  ELSE {[ret |-> Frame(df.columns \cup ScoreColumns, sorted),
         log |-> <<"info: Rated search results">>] :
          sorted \in SortValues(ScoredRows(df, query, additional_keywords, w,
                                           current_year))}

(***************************************************************************)
(* Inputs of the rater.                                                    *)
(***************************************************************************)
\* Largest number of records of a collection.
MaxRecords == 3

CurrentYears == {2026}

CleanCode == Str(<<"C", "l", "e", "a", "n", " ", "C", "o", "d", "e">>)

RobertMartin == Str(<<"R", "o", "b", "e", "r", "t", " ", "C", ".", " ", "M", "a", "r", "t", "i", "n">>)

\* The fields of a record, without its index label.
Record(title, author, year, filesize, extension, pages) ==
  [title |-> title, author |-> author, year |-> year, filesize |-> filesize,
   download_count |-> NaN, extension |-> extension, pages |-> pages]

Records ==
  { Record(CleanCode, RobertMartin, Num(2008), Num(4718592), <<"p", "d", "f">>, Num(464)),
    Record(Str(<<"D", "a", "t", "a", "b", "a", "s", "e", " ", "S", "y", "s", "t", "e", "m", "s">>), Str(<<"R", "a", "m", "e", "z", " ", "E", "l", "m", "a", "s", "r", "i">>), Num(2026),
           Num(62914560), <<"e", "p", "u", "b">>, Num(1200)),
    Record(Str(<<"T", "h", "e", " ", "C", "l", "e", "a", "n", " ", "C", "o", "d", "e", "r", ":", " ", "a", " ", "c", "o", "d", "e", " ", "o", "f", " ", "c", "o", "n", "d", "u", "c", "t">>), RobertMartin, NaN, NaN,
           <<"t", "x", "t">>, NaN),
    Record(Str(<<"D", "a", "t", "a", "b", "a", "s", "e", " ", "S", "y", "s", "t", "e", "m", "s">>), RobertMartin, NaN, NaN, <<"t", "x", "t">>, NaN),
    Record(Str(<<"C", "o", "d", "e">>), Str(<<"C", "l", "e", "a", "n", ",", " ", "M", "a", "r", "t", "i", "n">>), Num(1950), Num(51200),
           <<"P", "D", "F">>, Num(0)),
    Record(NotStr, Str(<<>>), Num(2030), NotANumber, <<"d", "j", "v", "u">>, NotANumber) }

AllColumns == {"title", "author", "year", "filesize", "extension", "pages"}

ColumnSets == {AllColumns, {"title", "download_count"}, {"year", "pages"}}

\* A collection: its columns and its rows, labelled 1, 2, ... (a RangeIndex).
Frames ==
  UNION {{[columns |-> cs,
           rows |-> [i \in 1..n |->
                       [index |-> i, title |-> f[i].title, author |-> f[i].author,
                        year |-> f[i].year, filesize |-> f[i].filesize,
                        download_count |-> f[i].download_count,
                        extension |-> f[i].extension, pages |-> f[i].pages]]] :
            f \in [1..n -> Records], cs \in ColumnSets} : n \in 0..MaxRecords}

Queries == {<<"c", "l", "e", "a", "n", " ", "c", "o", "d", "e">>, <<"o", "f", " ", "a">>}

WeightConfigs == {<<>>, [title_match |-> 100, popularity |-> 150]}

RateArgs ==
  [weight_config : WeightConfigs, df : Frames, query : Queries,
   additional_keywords : {<<>>}, current_year : CurrentYears]

InitRate ==
  /\ pc = "ready"
  /\ ret = NoValue
  /\ exc = "none"
  /\ log = <<>>
  /\ gun = MockGUN
  /\ call = "rate_results"
  /\ arg \in RateArgs

\* rate_results that scores the caller's collection itself, without the
\* copy of line 60.
RateResultsInPlace ==
  /\ pc = "ready"
  /\ call = "rate_results"
  /\ \E r \in RateResultsOf(Weights(arg.weight_config), arg.df, arg.query,
                            arg.additional_keywords, arg.current_year) :
       /\ ret' = r.ret
       /\ log' = r.log
       /\ arg' = [arg EXCEPT !.df = r.ret.val]
  /\ exc' = "none"
  /\ pc' = "done"
  /\ UNCHANGED <<gun, call>>

\* ResultRater(weight_config).rate_results(df, query, additional_keywords).
\* The scores are assigned to result = df.copy() (line 60) and every path
\* returns without an assignment to df, so the caller's df stays as it is.
RateResults ==
  /\ pc = "ready"
  /\ call = "rate_results"
  /\ \E r \in RateResultsOf(Weights(arg.weight_config), arg.df, arg.query,
                            arg.additional_keywords, arg.current_year) :
       /\ ret' = r.ret
       /\ log' = r.log
  /\ exc' = "none"
  /\ pc' = "done"
  /\ UNCHANGED <<gun, call, arg>>

NextRate == RateResults

SpecRate == InitRate /\ [][NextRate]_vars

(***************************************************************************)
(* Properties of the rater.                                                *)
(***************************************************************************)
RateDone == pc = "done" /\ call = "rate_results"

\* The call scored and sorted the collection.
Rated == RateDone /\ "overall_score" \in ret.val.columns

\* C10 (as stated): the records are returned in non-increasing order of
\* overall_score, and records of equal overall_score keep the relative order
\* they had in the input.
C10_SortedAndStable ==
  Rated =>
    \A i, j \in 1..Len(ret.val.rows) :
      LET a == ret.val.rows[i]
          b == ret.val.rows[j]
      IN  (i < j /\ a.overall_score.kind = "num" /\ b.overall_score.kind = "num") =>
            /\ a.overall_score.v >= b.overall_score.v
            /\ a.overall_score.v = b.overall_score.v => a.index < b.index

InUnit(x) == 0 <= x /\ x <= Scale

\* C11 (as stated): after rate_results on a non-empty collection, each of the
\* five factor scores of every record is a number in [0,1], also for a
\* record whose year is unknown next to records whose year is known.
C11_FactorScoresInUnit ==
  Rated =>
    \A i \in 1..Len(ret.val.rows) :
      LET r == ret.val.rows[i]
      IN  /\ InUnit(r.title_match_score)
          /\ InUnit(r.author_match_score)
          /\ r.recency_score.kind = "num" /\ InUnit(r.recency_score.v)
          /\ InUnit(r.popularity_score)
          /\ InUnit(r.quality_score)

\* The terms of the query of the call.
QueryTerms == ExtractTerms(Str(arg.query))

\* score is 0.4*|I|/|F| + 0.6*|I|/|Q| for the field terms F and the query terms
\* Q, to the two millionths that the two divisions of a fixed-point score
\* can drop.
IsTermMatch(score, F, Q) ==
  LET Within(m, nF, nQ) ==
        /\ score * 10 * nF * nQ <= Scale * m * (4 * nQ + 6 * nF)
        /\ Scale * m * (4 * nQ + 6 * nF) < (score + 2) * 10 * nF * nQ
  IN  IF F = {} \/ Q = {} \/ F \cap Q = {} THEN score = 0
      ELSE Within(Cardinality(F \cap Q), Cardinality(F), Cardinality(Q))

\* The pairs <<field terms, score>> of the title and author cells that
\* rate_results scored.
ScoredCells ==
  {<<ExtractTerms(ret.val.rows[i].title), ret.val.rows[i].title_match_score>> :
     i \in {j \in 1..Len(ret.val.rows) : "title" \in arg.df.columns}}
  \cup
  {<<ExtractTerms(ret.val.rows[i].author), ret.val.rows[i].author_match_score>> :
     i \in {j \in 1..Len(ret.val.rows) : "author" \in arg.df.columns}}

\* C12 (as stated): the term-match score is 0 when either term set is empty
\* or they share no term, and otherwise 0.4*|I|/|field_terms| +
\* 0.6*|I|/|query_terms|; it lies in [0,1] and is 1 exactly when the two
\* term sets are equal.
C12_TermMatchOneIffEqual ==
  Rated =>
    \A c \in ScoredCells :
      /\ IsTermMatch(c[2], c[1], QueryTerms)
      /\ InUnit(c[2])
      /\ c[2] = Scale <=> c[1] = QueryTerms

\* C12 (amended): as stated, except that the score is 1 exactly when the two
\* term sets are equal and not empty; two empty term sets score 0.
C12_TermMatchOneIffEqualNonEmpty ==
  Rated =>
    \A c \in ScoredCells :
      /\ IsTermMatch(c[2], c[1], QueryTerms)
      /\ InUnit(c[2])
      /\ c[2] = Scale <=> (c[1] = QueryTerms /\ c[1] # {})

\* C12 witness: one call scored a title equal to the query in terms (1), a
\* title sharing one of its two terms (0.7) and a title sharing none (0).
C12_Witness ==
  /\ Rated
  /\ \E c \in ScoredCells : c[1] = QueryTerms /\ c[2] = Scale
  /\ \E c \in ScoredCells : c[1] # QueryTerms /\ c[2] = 700000
  /\ \E c \in ScoredCells : c[1] # {} /\ c[2] = 0

\* The weight the claim gives a factor, in hundredths: the caller's when the
\* caller supplied the key, the default otherwise.
ClaimedWeight(k) ==
  IF k \in DOMAIN arg.weight_config THEN arg.weight_config[k]
  ELSE CASE k = "title_match" -> 40
         [] k = "author_match" -> 20
         [] k = "recency" -> 10
         [] k = "popularity" -> 10
         [] k = "quality" -> 20

\* C13: overall_score of every record is the sum over the five factors of
\* weight * score, with the caller's weights replacing the defaults key by
\* key and nothing renormalized (the sum is NaN when the recency score is).
C13_OverallIsWeightedSum ==
  Rated =>
    \A i \in 1..Len(ret.val.rows) :
      LET r == ret.val.rows[i]
      IN  IF r.recency_score.kind = "num"
            THEN /\ r.overall_score.kind = "num"
                 /\ r.overall_score.v =
                      ClaimedWeight("title_match") * r.title_match_score
                      + ClaimedWeight("author_match") * r.author_match_score
                      + ClaimedWeight("recency") * r.recency_score.v
                      + ClaimedWeight("popularity") * r.popularity_score
                      + ClaimedWeight("quality") * r.quality_score
            ELSE r.overall_score.kind = "nan"

\* C13 witness: the caller's weights sum to more than 1 (title 1.0, popularity
\* 1.5, the other three at their defaults) and a record's overall_score is
\* above 1.
C13_Witness ==
  /\ Rated
  /\ DOMAIN arg.weight_config = {"title_match", "popularity"}
  /\ \E i \in 1..Len(ret.val.rows) :
       /\ ret.val.rows[i].overall_score.kind = "num"
       /\ ret.val.rows[i].overall_score.v > 100 * Scale

\* C14 (as stated): with the default weights, of two records with the same
\* author, recency, popularity and quality scores, the one with the strictly
\* greater title-match score is placed first.
C14_TitleMatchDecides ==
  (Rated /\ arg.weight_config = <<>>) =>
    \A i, j \in 1..Len(ret.val.rows) :
      LET a == ret.val.rows[i]
          b == ret.val.rows[j]
      IN  ( /\ a.author_match_score = b.author_match_score
            /\ a.recency_score = b.recency_score
            /\ a.popularity_score = b.popularity_score
            /\ a.quality_score = b.quality_score
            /\ a.title_match_score > b.title_match_score ) => i < j

RECURSIVE GCD(_, _)
GCD(a, b) == IF b = 0 THEN a ELSE GCD(b, a % b)

\* The file size of a scored record as the normalization counts it: an
\* unknown size is 0.
SizeOrZero(r) == IF r.filesize.kind = "num" THEN r.filesize.v ELSE 0

\* score is (v - lo) / (hi - lo): exactly at both ends, and to the thousandth
\* in between.
IsMinMax(score, v, lo, hi) ==
  LET Within(p, a, c) == p * c <= 1000 * a /\ 1000 * a < (p + 1) * c
      Reduced(g) == Within(score \div 1000, (v - lo) \div g, (hi - lo) \div g)
  IN  /\ v = lo => score = 0
      /\ v = hi => score = Scale
      /\ Reduced(GCD(hi - lo, v - lo))

\* C15: with a filesize column, popularity_score is the min-max normalization
\* of filesize over the collection, an unknown size counting as 0; when all
\* sizes are equal, every record gets exactly 0.5.
C15_PopularityMinMax ==
  (Rated /\ "filesize" \in arg.df.columns) =>
    LET rows == ret.val.rows
        sizes == {SizeOrZero(rows[i]) : i \in 1..Len(rows)}
        Of(lo, hi) ==
          \A i \in 1..Len(rows) :
            IF lo = hi THEN rows[i].popularity_score = 500000
            ELSE IsMinMax(rows[i].popularity_score, SizeOrZero(rows[i]), lo, hi)
    IN  Of(CHOOSE x \in sizes : \A y \in sizes : x <= y,
           CHOOSE x \in sizes : \A y \in sizes : x >= y)

\* C15 witness: a collection with an unknown size (score 0), a largest size
\* (score 1) and a size in between.
C15_Witness ==
  /\ Rated
  /\ "filesize" \in arg.df.columns
  /\ \E i \in 1..Len(ret.val.rows) :
       /\ ret.val.rows[i].filesize.kind = "nan"
       /\ ret.val.rows[i].popularity_score = 0
  /\ \E i \in 1..Len(ret.val.rows) : ret.val.rows[i].popularity_score = Scale
  /\ \E i \in 1..Len(ret.val.rows) :
       /\ ret.val.rows[i].popularity_score > 0
       /\ ret.val.rows[i].popularity_score < Scale

(***************************************************************************)
(* ResultRater._calculate_recency_score, called on a column of years.      *)
(***************************************************************************)
\* Longest column of years.
MaxYears == 2

\* Ages from two years in the future to two years past max_age.
Ages == (0 - 2)..(MaxAge + 2)

YearValues == {Num(c - a) : c \in CurrentYears, a \in Ages} \cup {NaN, NotANumber}

YearSeries == UNION {[1..n -> YearValues] : n \in 1..MaxYears}

RecencyArgs == [years_series : YearSeries, current_year : CurrentYears]

InitRecency ==
  /\ pc = "ready"
  /\ ret = NoValue
  /\ exc = "none"
  /\ log = <<>>
  /\ gun = MockGUN
  /\ call = "_calculate_recency_score"
  /\ arg \in RecencyArgs

\* self._calculate_recency_score(years_series)
CalculateRecencyScore ==
  /\ pc = "ready"
  /\ call = "_calculate_recency_score"
  /\ ret' = [type |-> "series",
             val |-> RecencyScores(arg.years_series, arg.current_year)]
  /\ pc' = "done"
  /\ UNCHANGED <<gun, call, arg, exc, log>>

NextRecency == CalculateRecencyScore

SpecRecency == InitRecency /\ [][NextRecency]_vars

RecencyDone == pc = "done" /\ call = "_calculate_recency_score"

\* The positions of the column that hold a year.
ValidYears == {i \in 1..Len(arg.years_series) : arg.years_series[i].kind = "num"}

YearsSince(i) == arg.current_year - arg.years_series[i].v

\* C16: the recency score does not increase with years_since, is 1 at
\* years_since 0 and for future years, and exactly 0 from years_since 50 on;
\* when no record has a valid year, every record gets 0.5.
C16_RecencyMonotone ==
  RecencyDone =>
    IF ValidYears = {}
      THEN \A i \in 1..Len(ret.val) : ret.val[i] = Num(500000)
      ELSE /\ \A i \in ValidYears :
                /\ ret.val[i].kind = "num"
                /\ InUnit(ret.val[i].v)
                /\ YearsSince(i) <= 0 <=> ret.val[i].v = Scale
                /\ YearsSince(i) >= 50 <=> ret.val[i].v = 0
           /\ \A i, j \in ValidYears :
                YearsSince(i) <= YearsSince(j) => ret.val[i].v >= ret.val[j].v

\* C16 witness: a column whose two years are 1 and 49 years old, with scores
\* strictly between 0 and 1 and the older one strictly lower.
C16_Witness ==
  /\ RecencyDone
  /\ Len(ret.val) = 2
  /\ ValidYears = {1, 2}
  /\ YearsSince(1) = 1 /\ YearsSince(2) = 49
  /\ ret.val[1].v < Scale /\ ret.val[1].v > ret.val[2].v /\ ret.val[2].v > 0

(***************************************************************************)
(* ResultRater._calculate_quality_score, called on a collection.           *)
(***************************************************************************)
\* Largest number of records of a collection whose quality is scored.
MaxQualityRows == 1

Extensions ==
  { <<"p", "d", "f">>, <<"e", "p", "u", "b">>, <<"t", "x", "t">>,
    <<"h", "t", "m", "l">>, <<"P", "D", "F">>, <<>> }

\* File sizes on both sides of every threshold of the size tiers, in bytes.
Filesizes ==
  { NaN, NotANumber, Num(0 - 5242880), Num(0), Num(51200), Num(102399),
    Num(102400), Num(103424), Num(104857), Num(104858), Num(1048575),
    Num(1048576), Num(10485759), Num(10485760), Num(52428799), Num(52428800),
    Num(62914560) }

PageCounts == {NaN, NotANumber, Num(0), Num(300), Num(301)}

QualityRow(extension, filesize, pages) ==
  [extension |-> extension, filesize |-> filesize, pages |-> pages]

\* Every size with the best and with the worst extension and page count, and
\* every extension and page count with an unknown and with a medium size.
QualityRows ==
  {QualityRow(<<"e", "p", "u", "b">>, f, Num(301)) : f \in Filesizes}
  \cup {QualityRow(<<"t", "x", "t">>, f, Num(0)) : f \in Filesizes}
  \cup {QualityRow(e, f, p) : e \in Extensions, f \in {NaN, Num(4718592)},
                              p \in PageCounts}

QualityFrames ==
  [columns : SUBSET {"extension", "filesize", "pages"},
   rows : UNION {[1..n -> QualityRows] : n \in 1..MaxQualityRows}]

InitQuality ==
  /\ pc = "ready"
  /\ ret = NoValue
  /\ exc = "none"
  /\ log = <<>>
  /\ gun = MockGUN
  /\ call = "_calculate_quality_score"
  /\ arg \in [df : QualityFrames]

\* self._calculate_quality_score(df)
CalculateQualityScore ==
  /\ pc = "ready"
  /\ call = "_calculate_quality_score"
  /\ IF QualityRaises(arg.df)
       THEN ret' = NoValue /\ exc' = "TypeError"
       ELSE /\ ret' = [type |-> "series",
                       val |-> [i \in 1..Len(arg.df.rows) |->
                                  QualityScore(arg.df.columns, arg.df.rows[i])]]
            /\ exc' = "none"
  /\ pc' = "done"
  /\ UNCHANGED <<gun, call, arg, log>>

NextQuality == CalculateQualityScore

SpecQuality == InitQuality /\ [][NextQuality]_vars

\* The call returned the scores.
QualityDone == pc = "done" /\ call = "_calculate_quality_score" /\ exc = "none"

\* The adjustment the claim gives a file size in bytes, in hundredths.
ClaimedSizeTier(bytes) ==
  IF bytes < 100 * 1024 THEN 0 - 20
  ELSE IF bytes < 1024 * 1024 THEN 0 - 10
  ELSE IF bytes < 10 * 1024 * 1024 THEN 0
  ELSE IF bytes < 50 * 1024 * 1024 THEN 10
  ELSE 15

\* C17 (as stated): the size adjustment is -0.2 below 100 KB, -0.1 from
\* 100 KB to 1 MB, 0 from 1 MB to 10 MB, +0.1 from 10 MB to 50 MB and +0.15
\* from 50 MB on, and the quality score is 0.5 plus the extension bonus, this
\* adjustment and the page-count adjustment.
C17_SizeTiers ==
  QualityDone =>
    \A i \in 1..Len(ret.val) :
      LET r == arg.df.rows[i]
      IN  ("filesize" \in arg.df.columns /\ r.filesize.kind = "num") =>
            ret.val[i] =
              (Scale \div 100) *
                (50 + ClaimedSizeTier(r.filesize.v)
                    + (IF "extension" \in arg.df.columns
                         THEN ExtensionBonus(r.extension) ELSE 0)
                    + (IF "pages" \in arg.df.columns
                         THEN PagesAdjustment(r.pages) ELSE 0))

\* C18: the quality score of every record lies in [0,1], for every
\* combination of extension, file size and page count.
C18_QualityInUnit ==
  QualityDone => \A i \in 1..Len(ret.val) : InUnit(ret.val[i])

\* C18 witness: the three bonuses stack (epub, 60 MB, 301 pages) and the
\* score is exactly 1.
C18_Witness ==
  /\ QualityDone
  /\ arg.df.columns = {"extension", "filesize", "pages"}
  /\ \E i \in 1..Len(ret.val) :
       /\ arg.df.rows[i] = QualityRow(<<"e", "p", "u", "b">>, Num(62914560), Num(301))
       /\ ret.val[i] = Scale

\* C19 (as stated): when the column a factor needs (title, author, year,
\* filesize) is missing from a non-empty collection, rate_results still
\* returns a scored collection and that factor's score is the neutral 0.5
\* for every record.
C19_MissingColumnNeutral ==
  (RateDone /\ arg.df.rows # <<>> /\ arg.df.columns # {} /\ ~QualityRaises(arg.df)) =>
    /\ Rated
    /\ \A i \in 1..Len(ret.val.rows) :
         LET r == ret.val.rows[i]
         IN  /\ "title" \notin arg.df.columns => r.title_match_score = 500000
             /\ "author" \notin arg.df.columns => r.author_match_score = 500000
             /\ "year" \notin arg.df.columns => r.recency_score = Num(500000)
             /\ "filesize" \notin arg.df.columns => r.popularity_score = 500000

(***************************************************************************)
(* ResultRater.get_top_results.                                            *)
(***************************************************************************)
\* DataFrame.head(n): the first n rows, or all but the last -n when n < 0.
HeadRows(rows, n) ==
  LET First(k) == SubSeq(rows, 1, Clip(k, 0, Len(rows)))
  IN  First(IF n >= 0 THEN n ELSE Len(rows) + n)

\* The first n rows of the collection as it is, never sorted.
GetTopResultsUnsorted(df, n) ==
  {[ret |-> Frame(df.columns, HeadRows(df.rows, n)), log |-> <<>>]}

\* get_top_results (lines 293-308): every outcome the call can have.
GetTopResultsOf(df, n) ==
  IF "overall_score" \notin df.columns
    THEN {[ret |-> Frame(df.columns, HeadRows(df.rows, n)),
           log |-> <<"warning: DataFrame does not contain rating scores">>]}
    ELSE {[ret |-> Frame(df.columns, HeadRows(sorted, n)), log |-> <<>>] :
            sorted \in SortValues(df.rows)}

OverallScores == {Num(0), Num(48000000), Num(150000000), NaN}

\* Collections of records with an overall_score, in any order, and the same
\* without the score column.
ScoredFrames ==
  UNION {{[columns |-> cs,
           rows |-> [i \in 1..n |-> [index |-> i, overall_score |-> f[i]]]] :
            f \in [1..n -> OverallScores],
            cs \in {{"title", "overall_score"}, {"title"}}} : n \in 0..MaxRecords}

TopArgs == [df : ScoredFrames, n : (0 - 1)..(MaxRecords + 1)]

InitTop ==
  /\ pc = "ready"
  /\ ret = NoValue
  /\ exc = "none"
  /\ log = <<>>
  /\ gun = MockGUN
  /\ call = "get_top_results"
  /\ arg \in TopArgs

\* self.get_top_results(df, n)
GetTopResults ==
  /\ pc = "ready"
  /\ call = "get_top_results"
  /\ \E r \in GetTopResultsOf(arg.df, arg.n) :
       /\ ret' = r.ret
       /\ log' = r.log
  /\ pc' = "done"
  /\ UNCHANGED <<gun, call, arg, exc>>

NextTop == GetTopResults

SpecTop == InitTop /\ [][NextTop]_vars

TopDone == pc = "done" /\ call = "get_top_results"

\* a is no later than b in descending order of overall_score, NaN last.
NoLater(a, b) ==
  \/ b.overall_score.kind = "nan"
  \/ /\ a.overall_score.kind = "num"
     /\ a.overall_score.v >= b.overall_score.v

\* C20: on a scored collection and for N >= 0, get_top_results returns
\* min(N, |df|) records: records of the collection, each once, in descending
\* order of overall_score, and none of the records left out comes before a
\* returned one in that order.
C20_TopN ==
  (TopDone /\ "overall_score" \in arg.df.columns /\ arg.n >= 0) =>
    LET Top(out, in) ==
          /\ Len(out) = IF arg.n < Len(in) THEN arg.n ELSE Len(in)
          /\ \A i \in 1..Len(out) : \E k \in 1..Len(in) : out[i] = in[k]
          /\ \A i, j \in 1..Len(out) :
               i < j => (out[i].index # out[j].index /\ NoLater(out[i], out[j]))
          /\ \A k \in 1..Len(in) :
               (\A i \in 1..Len(out) : out[i] # in[k]) =>
                 \A i \in 1..Len(out) : NoLater(out[i], in[k])
    IN  Top(ret.val.rows, arg.df.rows)

\* C20 witness: the top 2 of 3 records given in ascending order of score.
C20_Witness ==
  /\ TopDone
  /\ "overall_score" \in arg.df.columns
  /\ arg.n = 2
  /\ Len(arg.df.rows) = 3
  /\ arg.df.rows[1].overall_score = Num(0)
  /\ arg.df.rows[2].overall_score = Num(48000000)
  /\ arg.df.rows[3].overall_score = Num(150000000)
  /\ ret.val.rows = <<arg.df.rows[3], arg.df.rows[2]>>

(***************************************************************************)
(* ResultRater.explain_ratings.                                            *)
(***************************************************************************)
\* The five factors: the key of the weight, the score column and the text
\* that starts the description.
Factors ==
  { [key |-> "title_match", column |-> "title_match_score",
     text |-> "Title relevance to query"],
    [key |-> "author_match", column |-> "author_match_score",
     text |-> "Author relevance to query"],
    [key |-> "recency", column |-> "recency_score", text |-> "Recency score"],
    [key |-> "popularity", column |-> "popularity_score", text |-> "Popularity score"],
    [key |-> "quality", column |-> "quality_score", text |-> "Quality score"] }

\* explain_ratings without the weights: every factor gets weight 0.
ExplainRatingsNoWeights(w, df, n) ==
  IF df.rows = <<>> \/ df.columns = {} \/ "overall_score" \notin df.columns
    THEN {<<>>}
    ELSE {[i \in 1..Len(o.ret.val.rows) |->
             [overall_score |-> o.ret.val.rows[i].overall_score,
              factors |->
                {[key |-> f.key, score |-> o.ret.val.rows[i][f.column],
                  weight |-> 0,
                  explanation |-> <<f.text, o.ret.val.rows[i][f.column]>>] :
                   f \in {g \in Factors : g.column \in df.columns}}]] :
            o \in GetTopResultsOf(df, n)}

\* explain_ratings (lines 310-373): the lists the call can return; w is
\* self.weights.  An explanation holds the record's overall_score and, for
\* each factor whose score column is in the collection, the score, the
\* weight and the description made of a text and the score.
ExplainRatingsOf(w, df, n) ==
  IF df.rows = <<>> \/ df.columns = {} \/ "overall_score" \notin df.columns
    THEN {<<>>}
    ELSE {[i \in 1..Len(o.ret.val.rows) |->
             [overall_score |-> o.ret.val.rows[i].overall_score,
              factors |->
                {[key |-> f.key, score |-> o.ret.val.rows[i][f.column],
                  weight |-> w[f.key],
                  explanation |-> <<f.text, o.ret.val.rows[i][f.column]>>] :
                   f \in {g \in Factors : g.column \in df.columns}}]] :
            o \in GetTopResultsOf(df, n)}

\* Scored records: the overall score and the five factor scores.
ExplainRows ==
  { [overall_score |-> Num(48000000), title_match_score |-> 700000,
     author_match_score |-> 0, recency_score |-> Num(500000),
     popularity_score |-> 500000, quality_score |-> 500000],
    [overall_score |-> Num(150000000), title_match_score |-> 1000000,
     author_match_score |-> 200000, recency_score |-> Num(0),
     popularity_score |-> 1000000, quality_score |-> 300000],
    [overall_score |-> NaN, title_match_score |-> 800000,
     author_match_score |-> 1000000, recency_score |-> NaN,
     popularity_score |-> 0, quality_score |-> 1000000] }

\* Collections that are scored, that hold an overall_score only, and that
\* are not scored.
ExplainArgs ==
  [weight_config : WeightConfigs,
   df : UNION {{[columns |-> cs,
                 rows |-> [i \in 1..n |->
                             [index |-> i, overall_score |-> f[i].overall_score,
                              title_match_score |-> f[i].title_match_score,
                              author_match_score |-> f[i].author_match_score,
                              recency_score |-> f[i].recency_score,
                              popularity_score |-> f[i].popularity_score,
                              quality_score |-> f[i].quality_score]]] :
                  f \in [1..n -> ExplainRows],
                  cs \in {{"title"} \cup ScoreColumns, {"title", "overall_score"},
                          {"title"}}} : n \in 0..MaxRecords},
   n : (0 - 1)..(MaxRecords + 1)]

InitExplain ==
  /\ pc = "ready"
  /\ ret = NoValue
  /\ exc = "none"
  /\ log = <<>>
  /\ gun = MockGUN
  /\ call = "explain_ratings"
  /\ arg \in ExplainArgs

\* ResultRater(weight_config).explain_ratings(df, n)
ExplainRatings ==
  /\ pc = "ready"
  /\ call = "explain_ratings"
  /\ \E r \in ExplainRatingsOf(Weights(arg.weight_config), arg.df, arg.n) :
       ret' = List(r)
  /\ pc' = "done"
  /\ UNCHANGED <<gun, call, arg, exc, log>>

SpecExplain == InitExplain /\ [][ExplainRatings]_vars

ExplainDone == pc = "done" /\ call = "explain_ratings"

\* C21: explain_ratings returns no explanation for an empty or unscored
\* collection, and otherwise one explanation per top-N record, in the order
\* of get_top_results, holding for each factor whose score column the
\* collection has (all five for a scored collection) the record's score, the
\* configured weight and a description.
C21_ExplainTopN ==
  ExplainDone =>
    IF arg.df.rows = <<>> \/ "overall_score" \notin arg.df.columns
      THEN ret.val = <<>>
      ELSE \E p \in [1..Len(ret.val) -> 1..Len(arg.df.rows)] :
             LET out == [i \in 1..Len(ret.val) |-> arg.df.rows[p[i]]]
                 in == arg.df.rows
             IN  /\ arg.n >= 0 =>
                      Len(out) = IF arg.n < Len(in) THEN arg.n ELSE Len(in)
                 /\ \A i, j \in 1..Len(out) :
                      i < j => (p[i] # p[j] /\ NoLater(out[i], out[j]))
                 /\ \A k \in 1..Len(in) :
                      (\A i \in 1..Len(out) : p[i] # k) =>
                        (arg.n >= 0 => \A i \in 1..Len(out) : NoLater(out[i], in[k]))
                 /\ \A i \in 1..Len(out) :
                      /\ ret.val[i].overall_score = out[i].overall_score
                      /\ {f.key : f \in ret.val[i].factors}
                           = {g.key : g \in {h \in Factors : h.column \in arg.df.columns}}
                      /\ \A f \in ret.val[i].factors :
                           /\ f.weight = ClaimedWeight(f.key)
                           /\ \E g \in Factors :
                                /\ g.key = f.key
                                /\ f.score = out[i][g.column]
                                /\ f.explanation # <<>>

\* C21 witness: the two best of three scored records are explained, with
\* five factors each, under weights that the caller configured.
C21_Witness ==
  /\ ExplainDone
  /\ arg.weight_config # <<>>
  /\ ScoreColumns \subseteq arg.df.columns
  /\ Len(arg.df.rows) = 3
  /\ arg.n = 2
  /\ Len(ret.val) = 2
  /\ \A i \in 1..2 : Cardinality(ret.val[i].factors) = 5
  /\ ret.val[1].overall_score = Num(150000000)
  /\ ret.val[2].overall_score = Num(48000000)

(***************************************************************************)
(* extraction.py: DataExtractor.extract_features (lines 264-309).          *)
(*                                                                         *)
(* A row of these collections is a function from the names of the columns *)
(* to the cells.  A number cell is Num(v), NaN or a str that is no number; *)
(* a text cell is a Str or not a str.                                      *)
(***************************************************************************)
\* pd.to_datetime(cell, errors='coerce').dt.year for a date written
\* YYYY-MM-DD: the year, or NaN for a text that is no date.
DateYear(cell) ==
  IF /\ cell.str
     /\ Len(cell.text) = 10
     /\ \A i \in {1, 2, 3, 4, 6, 7, 9, 10} : IsDigit(cell.text[i])
     /\ cell.text[5] = "-" /\ cell.text[8] = "-"
    THEN Num(DigitsValue(SubSeq(cell.text, 1, 4)))
    ELSE NaN

\* Lines 281-302 when nothing raises: the copy with its derived columns.
EnrichedFrame(df, current_year) ==
  LET WithYear == "year" \in df.columns \/ "date" \in df.columns
      Year(row) == IF "year" \in df.columns THEN row.year ELSE DateYear(row.date)
      Megabytes(x) ==
        IF x.kind = "num"
          THEN [kind |-> "num", v |-> x.v \div MB, millionths |-> Fraction(x.v % MB, MB, 6)]
          ELSE [kind |-> "nan", v |-> 0, millionths |-> 0]
      Code(cell) ==
        IF cell.str
          THEN Str(Lower(SubSeq(cell.text, 1, IF Len(cell.text) < 2 THEN Len(cell.text) ELSE 2)))
          ELSE NotStr
      Derived(row, c) ==
        CASE c = "year" -> Year(row)
          [] c = "book_age" ->
               IF Year(row).kind = "num" THEN Num(current_year - Year(row).v) ELSE NaN
          [] c = "is_recent" ->
               Year(row).kind = "num" /\ Year(row).v >= current_year - 5
          [] c = "filesize_mb" -> Megabytes(row.filesize)
          [] c = "language_code" -> Code(row.language)
      New == (IF WithYear THEN {"year", "book_age", "is_recent"} ELSE {})
             \cup (IF "filesize" \in df.columns THEN {"filesize_mb"} ELSE {})
             \cup (IF "language" \in df.columns THEN {"language_code"} ELSE {})
  IN  [columns |-> df.columns \cup New,
       rows |-> [i \in 1..Len(df.rows) |->
                   [c \in df.columns \cup New |->
                      IF c \in New /\ ~(c = "year" /\ "year" \in df.columns)
                        THEN Derived(df.rows[i], c) ELSE df.rows[i][c]]]]

\* An operation of lines 281-302 raises: a str in the year or filesize
\* column (TypeError at line 288 or 292), or a language column that holds
\* no str at all, a float64 column without .str (AttributeError, line 296).
FeaturesRaise(df) ==
  \/ "year" \in df.columns /\ \E i \in 1..Len(df.rows) : df.rows[i].year.kind = "str"
  \/ "filesize" \in df.columns /\ \E i \in 1..Len(df.rows) : df.rows[i].filesize.kind = "str"
  \/ "language" \in df.columns /\ \A i \in 1..Len(df.rows) : ~df.rows[i].language.str

\* extract_features that enriches the caller's collection itself, without
\* the copy of line 278.
ExtractFeaturesInPlace(df, current_year) ==
  IF df.rows = <<>> \/ df.columns = {} \/ FeaturesRaise(df)
    THEN [ret |-> df, df |-> df]
    ELSE [ret |-> EnrichedFrame(df, current_year), df |-> EnrichedFrame(df, current_year)]

\* extract_features that stores the age in the year column as well.
ExtractFeaturesAgeAsYear(df, current_year) ==
  LET AgeAsYear(e) ==
        [columns |-> e.columns,
         rows |-> [i \in 1..Len(e.rows) |->
                     [c \in e.columns |->
                        IF c = "year" THEN e.rows[i].book_age ELSE e.rows[i][c]]]]
  IN  IF df.rows = <<>> \/ df.columns = {} \/ FeaturesRaise(df)
        THEN [ret |-> df, df |-> df]
      ELSE IF "year" \in df.columns
        THEN [ret |-> AgeAsYear(EnrichedFrame(df, current_year)), df |-> df]
      ELSE [ret |-> EnrichedFrame(df, current_year), df |-> df]

\* extract_features: the collection it returns and the caller's collection
\* after the call.
ExtractFeaturesOf(df, current_year) ==
  IF df.rows = <<>> \/ df.columns = {} \/ FeaturesRaise(df)
    THEN [ret |-> df, df |-> df]
    ELSE [ret |-> EnrichedFrame(df, current_year), df |-> df]

\* Largest number of records of a collection given to extract_features.
MaxFeatureRows == 2

\* Records with a cell for every column a collection can have; book_age is
\* a column the collection brought along, right for the first record and
\* not for the second.
FeatureRecords ==
  { [year |-> Num(2023), date |-> Str(<<"2", "0", "2", "3", "-", "0", "4", "-", "0", "1">>), filesize |-> Num(4718592),
     language |-> Str(<<"E", "n", "g", "l", "i", "s", "h">>), book_age |-> Num(3)],
    [year |-> Num(1999), date |-> Str(<<"n", "/", "a">>), filesize |-> Num(51200),
     language |-> Str(<<"R", "U">>), book_age |-> Num(99)],
    [year |-> NaN, date |-> Str(<<"2", "0", "0", "8", "-", "0", "8", "-", "1", "1">>), filesize |-> NaN,
     language |-> NotStr, book_age |-> NaN],
    [year |-> NotANumber, date |-> NotStr, filesize |-> NotANumber,
     language |-> NotStr, book_age |-> NaN] }

FeatureArgs ==
  [current_year : CurrentYears,
   df : UNION {{[columns |-> cs, rows |-> [i \in 1..n |-> [c \in cs |-> f[i][c]]]] :
                  f \in [1..n -> FeatureRecords],
                  cs \in {{"year", "filesize", "language"}, {"date", "filesize"},
                          {"year", "book_age"}, {"language"}, {"date", "year"}}} :
               n \in 0..MaxFeatureRows}]

InitFeatures ==
  /\ pc = "ready"
  /\ ret = NoValue
  /\ exc = "none"
  /\ log = <<>>
  /\ gun = MockGUN
  /\ call = "extract_features"
  /\ arg \in FeatureArgs

\* The collection the next call of extract_features is given: the caller's,
\* and then the one the first call returned.
FeaturesInput == IF pc = "ready" THEN arg.df ELSE ret.val

\* out = extractor.extract_features(df), and then extract_features(out).
ExtractFeatures ==
  /\ pc \in {"ready", "done"}
  /\ call = "extract_features"
  /\ ret' = [type |-> "df", val |-> ExtractFeaturesOf(FeaturesInput, arg.current_year).ret]
  /\ arg' = IF pc = "ready"
              THEN [arg EXCEPT !.df = ExtractFeaturesOf(FeaturesInput, arg.current_year).df]
              ELSE arg
  /\ pc' = IF pc = "ready" THEN "done" ELSE "again"
  /\ UNCHANGED <<gun, call, exc, log>>

SpecFeatures == InitFeatures /\ [][ExtractFeatures]_vars

\* The columns extract_features computes.
DerivedColumns == {"book_age", "filesize_mb", "language_code", "is_recent"}

\* Collection out has as many records as collection in, and every column
\* of cs that in has, with the same values in the same rows.
KeepsColumns(in, out, cs) ==
  /\ Len(out.rows) = Len(in.rows)
  /\ in.columns \subseteq out.columns
  /\ \A i \in 1..Len(in.rows) : \A c \in in.columns \cap cs : out.rows[i][c] = in.rows[i][c]

\* C22 as stated: extract_features returns a collection with as many
\* records, in which every column of its input is present with the same
\* values in the same rows, and it leaves its input as it was.
C22_NonDestructive ==
  [][/\ arg' = arg
     /\ KeepsColumns(FeaturesInput, ret'.val, FeaturesInput.columns)]_vars

\* C22, amended: extract_features returns a collection with as many
\* records, from which no column of its input is missing, in which every
\* input column other than the derived ones (book_age, filesize_mb,
\* language_code, is_recent) has the same values in the same rows, and it
\* leaves its input as it was.
C22_NonDestructiveSourceColumns ==
  [][/\ arg' = arg
     /\ KeepsColumns(FeaturesInput, ret'.val, FeaturesInput.columns \ DerivedColumns)]_vars

\* A collection with records was enriched: the output has derived columns
\* the input has not, and the input's year column next to them.
C22_Witness ==
  /\ pc = "done"
  /\ arg.df.rows # <<>>
  /\ "year" \in arg.df.columns
  /\ "is_recent" \in ret.val.columns \ arg.df.columns
  /\ \A i \in 1..Len(arg.df.rows) : ret.val.rows[i].year = arg.df.rows[i].year

\* C23: with the same current year, extract_features applied to the
\* collection it returned returns that collection again: book_age,
\* filesize_mb, language_code and is_recent, and every other column, are
\* as they were.
C23_Idempotent ==
  [][pc = "done" => ret'.val = ret.val]_vars

\* The second run was given a collection the first one had enriched.
C23_Witness ==
  /\ pc = "again"
  /\ ret.val.rows # <<>>
  /\ {"book_age", "is_recent", "filesize_mb", "language_code"} \subseteq ret.val.columns

(***************************************************************************)
(* extraction.py: DataExtractor.filter_dataframe (lines 63-105).           *)
(*                                                                         *)
(* filters is a dict: a sequence of filters on different columns, in the  *)
(* order of insertion.  A filter is [col, shape, values, value, min, max]: *)
(* a list of allowed values, a tuple (min, max), a callable (here          *)
(* lambda y: y > min) or a scalar value.                                   *)
(***************************************************************************)
\* Evaluating the filter on this cell raises: an ordering comparison of a
\* str with a number (TypeError, lines 90-91 and in the callable, line 94).
FilterRaises(filter, cell) ==
  filter.shape \in {"tuple", "callable"} /\ cell.kind = "str"

\* The range test with the upper bound excluded.
FilterKeepsBelowMax(filter, cell) ==
  CASE filter.shape = "list" -> cell \in filter.values
    [] filter.shape = "tuple" ->
         cell.kind = "num" /\ filter.min <= cell.v /\ cell.v < filter.max
    [] filter.shape = "callable" -> cell.kind = "num" /\ cell.v > filter.min
    [] OTHER -> cell = filter.value

\* The mask of lines 85-97 for one cell: isin, the closed range (NaN
\* compares False), the callable, or equality.
FilterKeeps(filter, cell) ==
  CASE filter.shape = "list" -> cell \in filter.values
    [] filter.shape = "tuple" ->
         cell.kind = "num" /\ filter.min <= cell.v /\ cell.v <= filter.max
    [] filter.shape = "callable" -> cell.kind = "num" /\ cell.v > filter.min
    [] OTHER -> cell = filter.value

\* The loop of lines 80-97 over the filters, from filtered_df = rows: the
\* rows left, or raised with a filter that raises on a row still there.
RECURSIVE FilteredRows(_, _, _)
FilteredRows(columns, rows, filters) ==
  IF filters = <<>> THEN [raised |-> FALSE, rows |-> rows]
  ELSE IF Head(filters).col \notin columns
    THEN FilteredRows(columns, rows, Tail(filters))
  ELSE IF \E i \in 1..Len(rows) : FilterRaises(Head(filters), rows[i][Head(filters).col])
    THEN [raised |-> TRUE, rows |-> rows]
  ELSE LET Keep(row) == FilterKeeps(Head(filters), row[Head(filters).col])
       IN  FilteredRows(columns, SelectSeq(rows, Keep), Tail(filters))

\* filter_dataframe whose except branch returns filtered_df, the records
\* left when the filter raised.
FilterDataframePartial(df, filters) ==
  IF df.rows = <<>> \/ df.columns = {} THEN df
  ELSE [columns |-> df.columns, rows |-> FilteredRows(df.columns, df.rows, filters).rows]

\* filter_dataframe(df, filters): the collection it returns.
FilterDataframeOf(df, filters) ==
  IF df.rows = <<>> \/ df.columns = {} THEN df
  ELSE IF FilteredRows(df.columns, df.rows, filters).raised THEN df
  ELSE [columns |-> df.columns, rows |-> FilteredRows(df.columns, df.rows, filters).rows]

\* Largest number of records of a collection given to filter_dataframe,
\* and largest number of filters.
MaxFilterRows == 2
MaxFilters == 2

FilterRecords ==
  { [year |-> Num(2008), language |-> Str(<<"E", "n", "g", "l", "i", "s", "h">>)],
    [year |-> Num(2023), language |-> Str(<<"R", "u", "s", "s", "i", "a", "n">>)],
    [year |-> Num(1999), language |-> Str(<<"R", "u", "s", "s", "i", "a", "n">>)],
    [year |-> NaN, language |-> NotStr],
    [year |-> NotANumber, language |-> Str(<<"E", "n", "g", "l", "i", "s", "h">>)] }

\* Filters on the columns year and language, and on publisher, a column
\* the collections do not have.
FilterValues ==
  { [col |-> "language", shape |-> "list", values |-> {Str(<<"R", "u", "s", "s", "i", "a", "n">>), Str(<<"G", "e", "r", "m", "a", "n">>)},
     value |-> NotStr, min |-> 0, max |-> 0],
    [col |-> "language", shape |-> "scalar", values |-> {},
     value |-> Str(<<"E", "n", "g", "l", "i", "s", "h">>), min |-> 0, max |-> 0],
    [col |-> "year", shape |-> "tuple", values |-> {},
     value |-> NotStr, min |-> 2008, max |-> 2023],
    [col |-> "year", shape |-> "callable", values |-> {},
     value |-> NotStr, min |-> 2000, max |-> 0],
    [col |-> "publisher", shape |-> "list", values |-> {},
     value |-> NotStr, min |-> 0, max |-> 0] }

FilterArgs ==
  [df : UNION {{[columns |-> {"year", "language"}, rows |-> rows] :
                  rows \in [1..n -> FilterRecords]} : n \in 0..MaxFilterRows},
   filters : UNION {{f \in [1..n -> FilterValues] :
                       \A i \in 1..n : \A j \in 1..n : f[i].col = f[j].col => i = j} :
                    n \in 0..MaxFilters}]

InitFilter ==
  /\ pc = "ready"
  /\ ret = NoValue
  /\ exc = "none"
  /\ log = <<>>
  /\ gun = MockGUN
  /\ call = "filter_dataframe"
  /\ arg \in FilterArgs

\* filtered = extractor.filter_dataframe(df, filters)
FilterDataframe ==
  /\ pc = "ready"
  /\ call = "filter_dataframe"
  /\ ret' = [type |-> "df", val |-> FilterDataframeOf(arg.df, arg.filters)]
  /\ pc' = "done"
  /\ UNCHANGED <<gun, call, arg, exc, log>>

SpecFilter == InitFilter /\ [][FilterDataframe]_vars

FilterDone == pc = "done" /\ call = "filter_dataframe"

\* The record satisfies every filter on a column the collection has; a
\* filter that cannot be evaluated on the record is not satisfied.
SatisfiesAll(df, filters, row) ==
  \A k \in 1..Len(filters) :
    filters[k].col \in df.columns =>
      LET cell == row[filters[k].col]
      IN  CASE filters[k].shape = "list" -> cell \in filters[k].values
            [] filters[k].shape = "tuple" ->
                 cell.kind = "num" /\ filters[k].min <= cell.v /\ cell.v <= filters[k].max
            [] filters[k].shape = "callable" -> cell.kind = "num" /\ cell.v > filters[k].min
            [] OTHER -> cell = filters[k].value

\* The same filters in every order.
Reorderings(filters) ==
  {g \in [1..Len(filters) -> {filters[k] : k \in 1..Len(filters)}] :
     \A k \in 1..Len(filters) : \E j \in 1..Len(filters) : g[j] = filters[k]}

\* Some filter raises on a record that the filters before it have kept.
SomeFilterRaises(df, filters) ==
  \E k \in 1..Len(filters) : \E i \in 1..Len(df.rows) :
    /\ filters[k].col \in df.columns
    /\ filters[k].shape \in {"tuple", "callable"}
    /\ df.rows[i][filters[k].col].kind = "str"
    /\ SatisfiesAll(df, SubSeq(filters, 1, k - 1), df.rows[i])

C29_FailsOpen ==
  (FilterDone /\ SomeFilterRaises(arg.df, arg.filters)) =>
    ret.val = arg.df /\ exc = "none"

\* The first filter had excluded a record when the second one raised, and
\* the excluded record is in the result.
C29_Witness ==
  /\ FilterDone
  /\ Len(arg.filters) = 2
  /\ \A k \in 1..2 : arg.filters[k].col \in arg.df.columns
  /\ ret.val = arg.df
  /\ \E i \in 1..Len(arg.df.rows) :
       ~SatisfiesAll(arg.df, SubSeq(arg.filters, 1, 1), arg.df.rows[i])
  /\ \E i \in 1..Len(arg.df.rows) :
       /\ SatisfiesAll(arg.df, SubSeq(arg.filters, 1, 1), arg.df.rows[i])
       /\ FilterRaises(arg.filters[2], arg.df.rows[i][arg.filters[2].col])

(***************************************************************************)
(* database.py: GunReference (lines 29-67) and GUNDatabase (lines 73-181). *)
(*                                                                         *)
(* A node of gun is Dict or a value [kind, val]: a str, an int or a list.  *)
(* A dict that is stored (a search entry, a book) is a function from its  *)
(* keys to values.                                                         *)
(***************************************************************************)
Dict == [kind |-> "dict", val |-> <<>>]

\* _path.split('.')
RECURSIVE SplitDots(_)
SplitDots(t) ==
  IF \A i \in 1..Len(t) : t[i] # "."
    THEN <<t>>
    ELSE LET i == CHOOSE j \in 1..Len(t) : t[j] = "." /\ \A k \in 1..(j - 1) : t[k] # "."
         IN  <<SubSeq(t, 1, i - 1)>> \o SplitDots(SubSeq(t, i + 1, Len(t)))

\* GUNDatabase._normalize_query: query.lower().strip()
NormalizeQuery(query) == Strip(Lower(query))

\* The path of gun.get(collection).get(key): f"{collection}.{key}", split.
PathOf(collection, key) == SplitDots(collection \o <<".">> \o key)

\* _navigate_to_path raises: a node before the last one is no dict
\* (AttributeError or TypeError at line 62-64).
NavigateRaises(data, path) ==
  \E k \in 1..(Len(path) - 1) :
    SubSeq(path, 1, k) \in DOMAIN data /\ data[SubSeq(path, 1, k)].kind # "dict"

\* GunReference.put(fields) at path raises: the navigation does, or the
\* node reached is no dict and has no update().
PutRaises(data, path) ==
  \/ NavigateRaises(data, path)
  \/ path \in DOMAIN data /\ data[path].kind # "dict"

\* GunReference.put(fields) at path when it does not raise: the dicts on
\* the path are created, and node.update(fields) assigns every key, which
\* removes what was at and below that key.
Put(data, path, fields) ==
  LET Assigned == {path \o <<k>> : k \in DOMAIN fields}
      Created == {SubSeq(path, 1, k) : k \in 1..Len(path)}
      Below(p) == \E a \in Assigned : Len(a) < Len(p) /\ SubSeq(p, 1, Len(a)) = a
      Kept == {p \in DOMAIN data : ~Below(p)}
  IN  [p \in Kept \cup Created \cup Assigned |->
         IF p \in Assigned THEN fields[p[Len(p)]]
         ELSE IF p \in DOMAIN data THEN data[p]
         ELSE Dict]

\* GunReference.on(on_data) with the callbacks of get_book and
\* get_search_results: the node at path if there is one and it is truthy.
\* A dict is returned as the function from the paths below it to the nodes.
On(data, path) ==
  LET Under == {p \in DOMAIN data : Len(p) > Len(path) /\ SubSeq(p, 1, Len(path)) = path}
      Truthy(node) == IF node.kind = "int" THEN node.val # 0 ELSE node.val # <<>>
  IN  IF path \notin DOMAIN data THEN NoValue
      ELSE IF data[path].kind = "dict"
        THEN IF Under = {} THEN NoValue
             ELSE [type |-> "dict",
                   val |-> [q \in {SubSeq(p, Len(path) + 1, Len(p)) : p \in Under} |->
                              data[path \o q]]]
      ELSE IF Truthy(data[path]) THEN [type |-> "value", val |-> data[path]]
      ELSE NoValue

KeyId == <<"i", "d">>
KeyTitle == <<"t", "i", "t", "l", "e">>
KeyQuery == <<"q", "u", "e", "r", "y">>
KeyTimestamp == <<"t", "i", "m", "e", "s", "t", "a", "m", "p">>
KeyResults == <<"r", "e", "s", "u", "l", "t", "s">>

\* store_book(book_data): the data after the call and what it returns.
StoreBookOf(data, book_data) ==
  IF DOMAIN book_data = {} \/ KeyId \notin DOMAIN book_data
    THEN [data |-> data, ret |-> FALSE]
  ELSE IF PutRaises(data, PathOf(<<"b", "o", "o", "k", "s">>, book_data[KeyId].val))
    THEN [data |-> data, ret |-> FALSE]
  ELSE [data |-> Put(data, PathOf(<<"b", "o", "o", "k", "s">>, book_data[KeyId].val), book_data),
        ret |-> TRUE]

\* Lines 153-155: store_book for every book of results that has an id.
RECURSIVE StoreBooks(_, _)
StoreBooks(data, results) ==
  IF results = <<>> THEN data
  ELSE IF KeyId \in DOMAIN Head(results)
    THEN StoreBooks(StoreBookOf(data, Head(results)).data, Tail(results))
  ELSE StoreBooks(data, Tail(results))

\* Largest number of store calls of a behaviour.
MaxStores == 3

TextValue(t) == [kind |-> "str", val |-> t]

DbQueries == {<<" ", "A">>, <<"a">>, <<"a", ".", "q", "u", "e", "r", "y">>, <<"a", ".", "b">>}

DbBooks ==
  { (KeyId :> TextValue(<<"7">>)) @@ (KeyTitle :> TextValue(<<"S", "I", "C", "P">>)),
    (KeyId :> TextValue(<<"7", ".", "1">>)) @@ (KeyTitle :> TextValue(<<"T", "A", "O", "C", "P">>)),
    (KeyTitle :> TextValue(<<"S", "I", "C", "P">>)) }

DbResults == {<<>>, <<(KeyId :> TextValue(<<"7">>)) @@ (KeyTitle :> TextValue(<<"S", "I", "C", "P">>))>>}

DbBookIds == {<<"7">>, <<"7", ".", "1">>}

InitDb ==
  /\ pc = "ready"
  /\ ret = NoValue
  /\ exc = "none"
  /\ log = <<>>
  /\ gun = MockGUN
  /\ call = "none"
  /\ arg = <<>>

\* database.store_search_results(query, results).  The log tells the
\* call, its arguments and what it returned.
StoreSearchResults ==
  /\ call \in {"none", "store_search_results", "store_book", "get_search_results", "get_book"}
  /\ Len(log) < MaxStores
  /\ \E query \in DbQueries, results \in DbResults :
       LET path == PathOf(<<"s", "e", "a", "r", "c", "h", "e", "s">>, NormalizeQuery(query))
           search_data == (KeyQuery :> TextValue(query))
                          @@ (KeyTimestamp :> [kind |-> "int", val |-> 1000 + Len(log)])
                          @@ (KeyResults :> [kind |-> "list", val |-> results])
           ok == ~PutRaises(gun, path)
       IN  /\ gun' = IF ok THEN StoreBooks(Put(gun, path, search_data), results) ELSE gun
           /\ ret' = [type |-> "bool", val |-> ok]
           /\ arg' = [query |-> query, results |-> results]
           /\ log' = Append(log, [call |-> "store_search_results", query |-> query,
                                  results |-> results, id |-> <<>>, ret |-> ok])
  /\ call' = "store_search_results"
  /\ pc' = "done"
  /\ exc' = "none"

\* database.store_book(book_data)
StoreBook ==
  /\ call \in {"none", "store_search_results", "store_book", "get_search_results", "get_book"}
  /\ Len(log) < MaxStores
  /\ \E book_data \in DbBooks :
       /\ gun' = StoreBookOf(gun, book_data).data
       /\ ret' = [type |-> "bool", val |-> StoreBookOf(gun, book_data).ret]
       /\ arg' = [book_data |-> book_data]
       /\ log' = Append(log, [call |-> "store_book", query |-> <<>>, results |-> <<>>,
                              id |-> IF KeyId \in DOMAIN book_data
                                       THEN book_data[KeyId].val ELSE <<>>,
                              ret |-> StoreBookOf(gun, book_data).ret])
  /\ call' = "store_book"
  /\ pc' = "done"
  /\ exc' = "none"

\* database.get_search_results(query): None, the node found, or the
\* AttributeError of a navigation through a value.
GetSearchResults ==
  /\ call \in {"none", "store_search_results", "store_book", "get_search_results", "get_book"}
  /\ \E query \in DbQueries :
       LET path == PathOf(<<"s", "e", "a", "r", "c", "h", "e", "s">>, NormalizeQuery(query))
       IN  /\ ret' = IF NavigateRaises(gun, path) THEN NoValue ELSE On(gun, path)
           /\ exc' = IF NavigateRaises(gun, path) THEN "AttributeError" ELSE "none"
           /\ arg' = [query |-> query]
  /\ call' = "get_search_results"
  /\ pc' = "done"
  /\ UNCHANGED <<gun, log>>

\* database.get_book(book_id)
GetBook ==
  /\ call \in {"none", "store_search_results", "store_book", "get_search_results", "get_book"}
  /\ \E book_id \in DbBookIds :
       LET path == PathOf(<<"b", "o", "o", "k", "s">>, book_id)
       IN  /\ ret' = IF NavigateRaises(gun, path) THEN NoValue ELSE On(gun, path)
           /\ exc' = IF NavigateRaises(gun, path) THEN "AttributeError" ELSE "none"
           /\ arg' = [book_id |-> book_id]
  /\ call' = "get_book"
  /\ pc' = "done"
  /\ UNCHANGED <<gun, log>>

NextDb == StoreSearchResults \/ StoreBook \/ GetSearchResults \/ GetBook

SpecDb == InitDb /\ [][NextDb]_vars

\* The calls of store_search_results that returned True with a query of
\* this normalized key, as positions of the log.
StoresUnder(key) ==
  {k \in 1..Len(log) : /\ log[k].call = "store_search_results"
                       /\ log[k].ret
                       /\ NormalizeQuery(log[k].query) = key}

\* C25: after store_search_results(q, results) has returned True,
\* get_search_results(q') with a q' of the same normalized key returns an
\* entry whose query is q and whose results are results, also after stores
\* under other normalized keys.
C25_RoundTrip ==
  (call = "get_search_results" /\ StoresUnder(NormalizeQuery(arg.query)) # {}) =>
    LET last == CHOOSE k \in StoresUnder(NormalizeQuery(arg.query)) :
                  \A j \in StoresUnder(NormalizeQuery(arg.query)) : j <= k
    IN  /\ exc = "none"
        /\ ret.type = "dict"
        /\ {<<KeyQuery>>, <<KeyResults>>} \subseteq DOMAIN ret.val
        /\ ret.val[<<KeyQuery>>] = TextValue(log[last].query)
        /\ ret.val[<<KeyResults>>] = [kind |-> "list", val |-> log[last].results]

\* C30: get_search_results(q) returns an entry only if store_search_results
\* was called before with a query of the same normalized key, and
\* get_book(id) returns a book only if a book with that id was stored, by
\* store_book or among the results of store_search_results.
C30_KeyIsolation ==
  /\ (call = "get_search_results" /\ ret # NoValue) =>
       \E k \in 1..Len(log) :
         /\ log[k].call = "store_search_results"
         /\ NormalizeQuery(log[k].query) = NormalizeQuery(arg.query)
  /\ (call = "get_book" /\ ret # NoValue) =>
       \E k \in 1..Len(log) :
         \/ log[k].call = "store_book" /\ log[k].id = arg.book_id
         \/ /\ log[k].call = "store_search_results"
            /\ \E i \in 1..Len(log[k].results) :
                 /\ KeyId \in DOMAIN log[k].results[i]
                 /\ log[k].results[i][KeyId].val = arg.book_id

(***************************************************************************)
(* rating.py: the effect of rate_results on its input (lines 55-114).      *)
(***************************************************************************)
\* C26: in every outcome of rate_results (scored, empty input, internal
\* error) the caller's collection has after the call the columns, values
\* and row order it had before, and none of the score columns; a scored
\* result has all of them.
C26_InputUntouched ==
  [][(pc = "ready" /\ call = "rate_results") =>
       /\ arg'.df = arg.df
       /\ arg'.df.columns \cap ScoreColumns = {}
       /\ "overall_score" \in ret'.val.columns => ScoreColumns \subseteq ret'.val.columns]_vars

\* A collection was scored and came back in another order than the one
\* the caller's collection still has.
C26_Witness ==
  /\ Rated
  /\ "title" \in arg.df.columns
  /\ Len(arg.df.rows) >= 2
  /\ ret.val.rows[1].title # arg.df.rows[1].title
  /\ arg.df.columns \cap ScoreColumns = {}
  /\ ScoreColumns \subseteq ret.val.columns

(***************************************************************************)
(* rating.py: the clamp and the page count of the quality score            *)
(* (lines 213-274).                                                        *)
(***************************************************************************)
\* The sum of line 214 to 271 for one row before the clip of line 274, in
\* hundredths.
QualitySum(columns, row) ==
  50 + (IF "extension" \in columns THEN ExtensionBonus(row.extension) ELSE 0)
     + (IF "filesize" \in columns THEN SizeAdjustment(row.filesize) ELSE 0)
     + (IF "pages" \in columns THEN PagesAdjustment(row.pages) ELSE 0)

\* C27: the clip of the quality score never changes it: for every
\* extension, file size and page count the sum before the clip lies in
\* [0.1, 1.0] and is the score.
C27_ClampNotBinding ==
  QualityDone =>
    \A i \in 1..Len(ret.val) :
      /\ 10 <= QualitySum(arg.df.columns, arg.df.rows[i])
      /\ QualitySum(arg.df.columns, arg.df.rows[i]) <= 100
      /\ ret.val[i] = (Scale \div 100) * QualitySum(arg.df.columns, arg.df.rows[i])

\* The two penalties stack (a file below 0.1 MB with 0 pages and no bonus
\* for the extension) and the score is the minimum, 0.1.
C27_Witness ==
  /\ QualityDone
  /\ arg.df.columns = {"extension", "filesize", "pages"}
  /\ arg.df.rows[1].filesize = Num(51200)
  /\ arg.df.rows[1].pages = Num(0)
  /\ ret.val[1] = Scale \div 10

\* C28: a record whose page count is unknown (NaN) or not a number gets
\* the quality score it would get with 0 pages: 0.5 plus the extension
\* bonus and the size adjustment, minus 0.2.
C28_UnknownPagesAsZero ==
  (QualityDone /\ "pages" \in arg.df.columns) =>
    \A i \in 1..Len(ret.val) :
      arg.df.rows[i].pages.kind # "num" =>
        /\ ret.val[i] = QualityScore(arg.df.columns, [arg.df.rows[i] EXCEPT !.pages = Num(0)])
        /\ ret.val[i] =
             (Scale \div 100) *
               (50 - 20
                + (IF "extension" \in arg.df.columns
                     THEN ExtensionBonus(arg.df.rows[i].extension) ELSE 0)
                + (IF "filesize" \in arg.df.columns
                     THEN SizeAdjustment(arg.df.rows[i].filesize) ELSE 0))

\* An epub of medium size whose page count is a str that is no number is
\* scored 0.55 = 0.5 + 0.25 - 0.2.
C28_Witness ==
  /\ QualityDone
  /\ arg.df.columns = {"extension", "filesize", "pages"}
  /\ arg.df.rows[1].extension = <<"e", "p", "u", "b">>
  /\ arg.df.rows[1].filesize = Num(4718592)
  /\ arg.df.rows[1].pages = NotANumber
  /\ ret.val[1] = 55 * (Scale \div 100)
====
